---- MODULE Spec2Model ----
(***************************************************************************)
(* A model of the Stockfish session class of src/stockfish/models.py: one  *)
(* session object, the engine process behind its channel, and the public   *)
(* operations as atomic handlers.  A handler is a function from a session  *)
(* record to a session record; an exception is the field err, which stops  *)
(* every later step of the handler until something catches it.             *)
(*                                                                         *)
(* Text on the channel is kept as token tuples: a command or an output     *)
(* line is the sequence of its space-separated tokens (an option name is   *)
(* one token).  A FEN is the tuple of its six fields.                      *)
(***************************************************************************)
EXTENDS Integers, Sequences, FiniteSets, TLC

(***************************************************************************)
(* Python values: the runtime kind is kept apart from the payload, so that *)
(* True and 1 are different values, as type(value) sees them.              *)
(***************************************************************************)
IntV(n) == [kind |-> "int", n |-> n, s |-> ""]

BoolV(b) == [kind |-> "bool", n |-> IF b THEN 1 ELSE 0, s |-> ""]

StrV(t) == [kind |-> "str", n |-> 0, s |-> t]

FloatV(n) == [kind |-> "float", n |-> n, s |-> ""]

Digit(d) ==
    CASE d = 0 -> "0" [] d = 1 -> "1" [] d = 2 -> "2" [] d = 3 -> "3"
      [] d = 4 -> "4" [] d = 5 -> "5" [] d = 6 -> "6" [] d = 7 -> "7"
      [] d = 8 -> "8" [] d = 9 -> "9"

RECURSIVE NatToStr(_)
NatToStr(n) == IF n < 10 THEN Digit(n) ELSE NatToStr(n \div 10) \o Digit(n % 10)

\* str(n) of a Python int
IntToStr(n) == IF n < 0 THEN "-" \o NatToStr(-n) ELSE NatToStr(n)

\* str(value)
PyStr(v) ==
    CASE v.kind = "int" -> IntToStr(v.n)
      [] v.kind = "bool" -> (IF v.n = 1 THEN "True" ELSE "False")
      [] v.kind = "float" -> IntToStr(v.n) \o ".0"
      [] OTHER -> v.s

\* str.lower(), on the two texts it is applied to
Lower(t) == CASE t = "True" -> "true" [] t = "False" -> "false" [] OTHER -> t

(***************************************************************************)
(* The parameter registry.                                                 *)
(***************************************************************************)
Restr(type, hasMin, minimum, hasMax, maximum) ==
    [type |-> type, hasMin |-> hasMin, minimum |-> minimum,
     hasMax |-> hasMax, maximum |-> maximum]

Unbounded(type) == Restr(type, FALSE, 0, FALSE, 0)

Bounded(type, lo, hi) == Restr(type, TRUE, lo, TRUE, hi)

PARAM_RESTRICTIONS ==
    ("Debug Log File" :> Unbounded("str")) @@
    ("Threads" :> Bounded("int", 1, 1024)) @@
    ("Hash" :> Bounded("int", 1, 2048)) @@
    ("Ponder" :> Unbounded("bool")) @@
    ("MultiPV" :> Bounded("int", 1, 500)) @@
    ("Skill Level" :> Bounded("int", 0, 20)) @@
    ("Move Overhead" :> Bounded("int", 0, 5000)) @@
    ("Slow Mover" :> Bounded("int", 10, 1000)) @@
    ("UCI_Chess960" :> Unbounded("bool")) @@
    ("UCI_LimitStrength" :> Unbounded("bool")) @@
    ("UCI_Elo" :> Bounded("int", 1320, 3190)) @@
    ("Contempt" :> Bounded("int", -100, 100)) @@
    ("Min Split Depth" :> Bounded("int", 0, 12)) @@
    ("Minimum Thinking Time" :> Bounded("int", 0, 5000)) @@
    ("UCI_ShowWDL" :> Unbounded("bool"))

\* A Python dict handed to an operation keeps its insertion order: a sequence
\* of <<key, value>> pairs with distinct keys.
DEFAULT_STOCKFISH_PARAMS ==
    << <<"Debug Log File", StrV("")>>,
       <<"Contempt", IntV(0)>>,
       <<"Min Split Depth", IntV(0)>>,
       <<"Threads", IntV(1)>>,
       <<"Ponder", BoolV(FALSE)>>,
       <<"Hash", IntV(16)>>,
       <<"MultiPV", IntV(1)>>,
       <<"Skill Level", IntV(20)>>,
       <<"Move Overhead", IntV(10)>>,
       <<"Minimum Thinking Time", IntV(20)>>,
       <<"Slow Mover", IntV(100)>>,
       <<"UCI_Chess960", BoolV(FALSE)>>,
       <<"UCI_LimitStrength", BoolV(FALSE)>>,
       <<"UCI_Elo", IntV(1350)>> >>

DictKeys(d) == {d[i][1] : i \in DOMAIN d}

DictGet(d, k) == d[CHOOSE i \in DOMAIN d : d[i][1] = k][2]

\* d[k] = v, and d.update({k: v}): an existing key keeps its place
DictSet(d, k, v) ==
    IF k \in DictKeys(d)
    THEN [i \in DOMAIN d |-> IF d[i][1] = k THEN <<k, v>> ELSE d[i]]
    ELSE Append(d, <<k, v>>)

\* del d[k]
DictDel(d, k) == SelectSeq(d, LAMBDA p : p[1] # k)

\* self._parameters.update({name: value}), on the mapping name -> value
ParamsUpdate(f, k, v) == [x \in (DOMAIN f) \cup {k} |-> IF x = k THEN v ELSE f[x]]

EmptyParams == [x \in {} |-> IntV(0)]

\* Stockfish._validate_param_val: "ok" or the exception it raises
ValidateParamVal(name, value) ==
    IF name \notin DOMAIN PARAM_RESTRICTIONS THEN "ValueError"
    ELSE LET r == PARAM_RESTRICTIONS[name] IN
         IF value.kind # r.type THEN "ValueError"
         ELSE IF r.hasMin /\ value.kind = "int" /\ value.n < r.minimum THEN "ValueError"
         ELSE IF r.hasMax /\ value.kind = "int" /\ value.n > r.maximum THEN "ValueError"
         ELSE "ok"

(***************************************************************************)
(* The engine process, as the session sees it through the channel.  The    *)
(* engine is the sole authority on chess: its verdicts on the positions    *)
(* used here are tables.  EngineMoves lists a position's moves best first  *)
(* (all of them when there are fewer than five, else the first five, which *)
(* is as many as a search reports here, or the moves the tests ask about). *)
(***************************************************************************)
StartFen == <<"rnbqkbnr/pppppppp/8/8/8/8/PPPPPPPP/RNBQKBNR", "w", "KQkq", "-", "0", "1">>

E4Fen == <<"rnbqkbnr/pppppppp/8/8/4P3/8/PPPP1PPP/RNBQKBNR", "b", "KQkq", "-", "0", "1">>

E4E5Fen == <<"rnbqkbnr/pppp1ppp/8/4p3/4P3/8/PPPP1PPP/RNBQKBNR", "w", "KQkq", "-", "0", "2">>

OneMoveFen == <<"6r1/8/8/8/8/8/k7/7K", "w", "-", "-", "0", "1">>

AfterH2Fen == <<"6r1/8/8/8/8/8/k6K/8", "b", "-", "-", "1", "1">>

MateFen == <<"1nb1k1n1/pppppppp/8/6r1/5bqK/6r1/8/8", "w", "-", "-", "2", "2">>

\* correct syntax, but the side not to move is in check: the engine dies searching it
KingAttackedFen == <<"2k2q2/8/8/8/8/8/8/2Q2K2", "w", "-", "-", "0", "1">>

\* rejected by the syntax check
BadSyntaxFen == <<"4k3/8/4K3/8/8/8/8/8", "w", "-", "-", "99", "ee">>

\* the position of test_will_move_be_a_capture: en passant on d6, a pawn about to promote
CaptureFen == <<"1nbq1rk1/Ppp1ppbp/5np1/3pP3/8/BPN5/P1PP1PPP/R2QKBNR", "w", "KQ", "d6", "0", "6">>

\* the position of test_chess960_position: the king on f1 may castle with the rook on h1
Chess960Fen == <<"4rkr1/4p1p1/8/8/8/8/8/4nK1R", "w", "K", "-", "0", "100">>

EngineMoves(fen) ==
    CASE fen = StartFen -> <<"e2e4", "d2d4", "g1f3", "c2c4", "e2e3">>
      [] fen = E4Fen -> <<"e7e5", "c7c5", "e7e6", "c7c6", "g8f6">>
      [] fen = E4E5Fen -> <<"g1f3", "b1c3", "f1c4", "d2d4", "f2f4">>
      [] fen = OneMoveFen -> <<"h1h2">>
      [] fen = AfterH2Fen -> <<"g8h8", "a2b3", "g8g7", "g8g6", "g8g5">>
      [] fen = CaptureFen -> <<"e5f6", "c3d5", "e5d6", "f1e2", "a3d6", "a7a8q", "a7b8q">>
      [] fen = Chess960Fen -> <<"f1h1", "f1e1", "f1g1">>
      [] OTHER -> <<>>

EngineLegal(fen, move) == \E i \in DOMAIN EngineMoves(fen) : EngineMoves(fen)[i] = move

EngineResult(fen, move) ==
    CASE fen = StartFen /\ move = "e2e4" -> E4Fen
      [] fen = E4Fen /\ move = "e7e5" -> E4E5Fen
      [] fen = OneMoveFen /\ move = "h1h2" -> AfterH2Fen
      [] OTHER -> fen

\* `position fen F moves m1 m2 ...`: the moves are played while they are legal
RECURSIVE EnginePlay(_, _)
EnginePlay(fen, moves) ==
    IF moves = <<>> \/ ~EngineLegal(fen, Head(moves)) THEN fen
    ELSE EnginePlay(EngineResult(fen, Head(moves)), Tail(moves))

EngineDiesSearching(fen) == fen = KingAttackedFen

NumPool == (0 .. 40) \cup {500, 501, 100000, 1000000}

\* the engine's reading of a decimal token
ParseNat(t) == IF \E n \in NumPool : NatToStr(n) = t
               THEN CHOOSE n \in NumPool : NatToStr(n) = t
               ELSE 0

EngineMultiPV(eopts) == IF eopts["MultiPV"] = "<default>" THEN 1 ELSE ParseNat(eopts["MultiPV"])

EngineShowsWDL(eopts) == eopts["UCI_ShowWDL"] = "true"

Min(a, b) == IF a < b THEN a ELSE b

\* one `info` line of a search
InfoLine(eopts, d, i, nodes, move) ==
    <<"info", "depth", NatToStr(d), "seldepth", NatToStr(d), "multipv", NatToStr(i),
      "score", "cp", IntToStr(30 - 20 * i)>>
    \o (IF EngineShowsWDL(eopts) THEN <<"wdl", NatToStr(450 - 50 * i), "300", NatToStr(250 + 50 * i)>> ELSE <<>>)
    \o <<"nodes", NatToStr(nodes), "nps", "1000", "time", "1", "pv", move>>

\* the lines of one iteration: one per principal variation
DepthLines(eopts, d, k, nodes, cand) == [i \in 1 .. k |-> InfoLine(eopts, d, i, nodes, cand[i])]

\* castling written as the king taking its own rook: the engine reads and
\* writes it so only with UCI_Chess960 on
Castles960(fen, move) == fen = Chess960Fen /\ move = "f1h1"

EngineReads(fen, eopts, move) ==
    EngineLegal(fen, move) /\ (Castles960(fen, move) => eopts["UCI_Chess960"] = "true")

\* what `go ...` prints: the iterations up to the target, then `bestmove`;
\* `searchmoves` followed by no move restricts nothing
GoOutput(fen, eopts, cmd) ==
    LET restricted == Len(cmd) >= 5 /\ cmd[4] = "searchmoves" /\ cmd[5] # ""
        cand == IF restricted
                THEN (IF EngineReads(fen, eopts, cmd[5]) THEN <<cmd[5]>> ELSE <<>>)
                ELSE SelectSeq(EngineMoves(fen), LAMBDA move : EngineReads(fen, eopts, move))
        k == Min(EngineMultiPV(eopts), Len(cand))
        byNodes == cmd[2] = "nodes"
        target == IF Len(cmd) >= 3 THEN ParseNat(cmd[3]) ELSE 1
        depth == IF cmd[2] = "depth" /\ target >= 1 THEN target ELSE 2
        nodesLast == IF byNodes THEN target + 1 ELSE 10 * depth
        nodesPrev == IF byNodes /\ target >= 1 THEN target - 1 ELSE 10 * (depth - 1)
    IN  IF cand = <<>>
        THEN << <<"info", "depth", "0", "score", "mate", "0">>, <<"bestmove", "(none)">> >>
        ELSE (IF depth > 1 THEN DepthLines(eopts, depth - 1, k, nodesPrev, cand) ELSE <<>>)
             \o DepthLines(eopts, depth, k, nodesLast, cand)
             \o << <<"bestmove", cand[1]>> >>

\* what `uci` prints; hasWdl: the build has the UCI_ShowWDL option
UciOutput(version, hasWdl) ==
    << <<"id", "name", "Stockfish", version>>,
       <<"id", "author", "the", "Stockfish", "developers">>,
       <<>>,
       <<"option", "name", "Threads", "type", "spin", "default", "1", "min", "1", "max", "1024">>,
       <<"option", "name", "Hash", "type", "spin", "default", "16", "min", "1", "max", "33554432">> >>
    \o (IF hasWdl
        THEN << <<"option", "name", "UCI_ShowWDL", "type", "check", "default", "false">> >>
        ELSE <<>>)
    \o << <<"option", "name", "UCI_Elo", "type", "spin", "default", "1350", "min", "1350", "max", "2850">>,
          <<"uciok">> >>

\* what `d` prints: the 17 grid lines, the legend, then Fen, Key and Checkers
\* the eight squares of one rank of a placement field, from the a-file on
RankSquares(rank) ==
    CASE rank = "1nb1k1n1" -> <<" ", "n", "b", " ", "k", " ", "n", " ">>
      [] rank = "1nbq1rk1" -> <<" ", "n", "b", "q", " ", "r", "k", " ">>
      [] rank = "2Q2K2" -> <<" ", " ", "Q", " ", " ", "K", " ", " ">>
      [] rank = "2k2q2" -> <<" ", " ", "k", " ", " ", "q", " ", " ">>
      [] rank = "3pP3" -> <<" ", " ", " ", "p", "P", " ", " ", " ">>
      [] rank = "4K3" -> <<" ", " ", " ", " ", "K", " ", " ", " ">>
      [] rank = "4P3" -> <<" ", " ", " ", " ", "P", " ", " ", " ">>
      [] rank = "4k3" -> <<" ", " ", " ", " ", "k", " ", " ", " ">>
      [] rank = "4nK1R" -> <<" ", " ", " ", " ", "n", "K", " ", "R">>
      [] rank = "4p1p1" -> <<" ", " ", " ", " ", "p", " ", "p", " ">>
      [] rank = "4p3" -> <<" ", " ", " ", " ", "p", " ", " ", " ">>
      [] rank = "4rkr1" -> <<" ", " ", " ", " ", "r", "k", "r", " ">>
      [] rank = "5bqK" -> <<" ", " ", " ", " ", " ", "b", "q", "K">>
      [] rank = "5np1" -> <<" ", " ", " ", " ", " ", "n", "p", " ">>
      [] rank = "6r1" -> <<" ", " ", " ", " ", " ", " ", "r", " ">>
      [] rank = "7K" -> <<" ", " ", " ", " ", " ", " ", " ", "K">>
      [] rank = "8" -> <<" ", " ", " ", " ", " ", " ", " ", " ">>
      [] rank = "BPN5" -> <<"B", "P", "N", " ", " ", " ", " ", " ">>
      [] rank = "P1PP1PPP" -> <<"P", " ", "P", "P", " ", "P", "P", "P">>
      [] rank = "PPPP1PPP" -> <<"P", "P", "P", "P", " ", "P", "P", "P">>
      [] rank = "PPPPPPPP" -> <<"P", "P", "P", "P", "P", "P", "P", "P">>
      [] rank = "Ppp1ppbp" -> <<"P", "p", "p", " ", "p", "p", "b", "p">>
      [] rank = "R2QKBNR" -> <<"R", " ", " ", "Q", "K", "B", "N", "R">>
      [] rank = "RNBQKBNR" -> <<"R", "N", "B", "Q", "K", "B", "N", "R">>
      [] rank = "k6K" -> <<"k", " ", " ", " ", " ", " ", " ", "K">>
      [] rank = "k7" -> <<"k", " ", " ", " ", " ", " ", " ", " ">>
      [] rank = "pppp1ppp" -> <<"p", "p", "p", "p", " ", "p", "p", "p">>
      [] rank = "pppppppp" -> <<"p", "p", "p", "p", "p", "p", "p", "p">>
      [] rank = "rnbqkbnr" -> <<"r", "n", "b", "q", "k", "b", "n", "r">>

\* the ranks of a placement field, from the eighth down
PlacementRanks(placement) ==
    CASE placement = "rnbqkbnr/pppppppp/8/8/8/8/PPPPPPPP/RNBQKBNR" ->
            <<"rnbqkbnr", "pppppppp", "8", "8", "8", "8", "PPPPPPPP", "RNBQKBNR">>
      [] placement = "rnbqkbnr/pppppppp/8/8/4P3/8/PPPP1PPP/RNBQKBNR" ->
            <<"rnbqkbnr", "pppppppp", "8", "8", "4P3", "8", "PPPP1PPP", "RNBQKBNR">>
      [] placement = "rnbqkbnr/pppp1ppp/8/4p3/4P3/8/PPPP1PPP/RNBQKBNR" ->
            <<"rnbqkbnr", "pppp1ppp", "8", "4p3", "4P3", "8", "PPPP1PPP", "RNBQKBNR">>
      [] placement = "6r1/8/8/8/8/8/k7/7K" ->
            <<"6r1", "8", "8", "8", "8", "8", "k7", "7K">>
      [] placement = "6r1/8/8/8/8/8/k6K/8" ->
            <<"6r1", "8", "8", "8", "8", "8", "k6K", "8">>
      [] placement = "1nb1k1n1/pppppppp/8/6r1/5bqK/6r1/8/8" ->
            <<"1nb1k1n1", "pppppppp", "8", "6r1", "5bqK", "6r1", "8", "8">>
      [] placement = "2k2q2/8/8/8/8/8/8/2Q2K2" ->
            <<"2k2q2", "8", "8", "8", "8", "8", "8", "2Q2K2">>
      [] placement = "4k3/8/4K3/8/8/8/8/8" ->
            <<"4k3", "8", "4K3", "8", "8", "8", "8", "8">>
      [] placement = "1nbq1rk1/Ppp1ppbp/5np1/3pP3/8/BPN5/P1PP1PPP/R2QKBNR" ->
            <<"1nbq1rk1", "Ppp1ppbp", "5np1", "3pP3", "8", "BPN5", "P1PP1PPP", "R2QKBNR">>
      [] placement = "4rkr1/4p1p1/8/8/8/8/8/4nK1R" ->
            <<"4rkr1", "4p1p1", "8", "8", "8", "8", "8", "4nK1R">>

\* builds from 12 on print the rank numbers and the legend of the files
PrintsCoordinates(build) == ParseNat(build) >= 12

\* one rank as `d` prints it: a bar, then each square followed by a bar, then
\* the rank number when the build prints it
RankLine(squares, number) ==
    [k \in 1 .. 17 |-> IF k % 2 = 1 THEN "|" ELSE squares[k \div 2]] \o number

GridLine(fen, build, i) ==
    IF i % 2 = 1 THEN <<"+---+---+---+---+---+---+---+---+">>
    ELSE RankLine(RankSquares(PlacementRanks(fen[1])[i \div 2]),
                  IF PrintsCoordinates(build) THEN <<NatToStr(9 - (i \div 2))>> ELSE <<>>)

DOutput(fen, build) ==
    << <<>> >> \o [i \in 1 .. 17 |-> GridLine(fen, build, i)]
    \o (IF PrintsCoordinates(build)
        THEN << <<"a", "b", "c", "d", "e", "f", "g", "h">> >> ELSE <<>>)
    \o << <<>>, <<"Fen:">> \o fen, <<"Key:", "8F8F01D4562F59FB">>, <<"Checkers:">> >>

\* what `eval` prints: the static evaluation of the position from white's
\* side, in hundredths of a pawn here; none when the side to move is in check
EngineInCheck(fen) == fen = MateFen

StaticEval(fen) ==
    CASE fen = StartFen -> 30
      [] fen = E4Fen -> 35
      [] fen = E4E5Fen -> 25
      [] fen = OneMoveFen -> -500
      [] fen = AfterH2Fen -> -510
      [] OTHER -> 0

FloatText(n) ==
    IF n < 0 THEN "-" \o NatToStr((-n) \div 100) \o "." \o Digit(((-n) \div 10) % 10) \o Digit((-n) % 10)
    ELSE "+" \o NatToStr(n \div 100) \o "." \o Digit((n \div 10) % 10) \o Digit(n % 10)

EvalOutput(fen) ==
    IF EngineInCheck(fen)
    THEN << <<>>, <<"Final", "evaluation:", "none", "(in", "check)">> >>
    ELSE << <<>>,
            <<"NNUE", "evaluation", FloatText(StaticEval(fen)), "(white", "side)">>,
            <<"Final", "evaluation", FloatText(StaticEval(fen)), "(white", "side)",
              "[with", "scaled", "NNUE]">>,
            <<>> >>

\* what `go perft d` prints: for each legal move the number of leaves below
\* it (counted to two plies here), a blank line, the total, a blank line
PerftCount(fen, move, d) ==
    IF d <= 1 THEN 1 ELSE Len(EngineMoves(EngineResult(fen, move)))

RECURSIVE PerftTotal(_, _, _)
PerftTotal(fen, moves, d) ==
    IF moves = <<>> THEN 0
    ELSE PerftCount(fen, Head(moves), d) + PerftTotal(fen, Tail(moves), d)

PerftOutput(fen, d) ==
    [i \in DOMAIN EngineMoves(fen) |->
        <<EngineMoves(fen)[i], ":", NatToStr(PerftCount(fen, EngineMoves(fen)[i], d))>>]
    \o << <<>>,
          <<"Nodes", "searched", ":", NatToStr(PerftTotal(fen, EngineMoves(fen), d))>>,
          <<>> >>

EngineDefaults == [n \in DOMAIN PARAM_RESTRICTIONS |-> "<default>"]

\* The engine reads one command.  Nothing is printed for setoption, ucinewgame,
\* position and quit; the exit after quit is seen at the wait for it.
EngineReceive(s, cmd) ==
    CASE cmd[1] = "uci" -> [s EXCEPT !.out = @ \o UciOutput(s.build, s.hasWdl)]
      [] cmd[1] = "isready" -> [s EXCEPT !.out = Append(@, <<"readyok">>)]
      [] cmd[1] = "setoption" -> [s EXCEPT !.eopts[cmd[3]] = cmd[5]]
      [] cmd[1] = "position" ->
            [s EXCEPT !.epos = EnginePlay(SubSeq(cmd, 3, 8),
                                          IF Len(cmd) >= 10 THEN SubSeq(cmd, 10, Len(cmd)) ELSE <<>>)]
      [] cmd[1] = "go" ->
            IF Len(cmd) >= 3 /\ cmd[2] = "perft"
            THEN [s EXCEPT !.out = @ \o PerftOutput(s.epos, ParseNat(cmd[3]))]
            ELSE IF EngineDiesSearching(s.epos) THEN [s EXCEPT !.alive = FALSE]
            ELSE [s EXCEPT !.out = @ \o GoOutput(s.epos, s.eopts, cmd)]
      [] cmd[1] = "d" -> [s EXCEPT !.out = @ \o DOutput(s.epos, s.build)]
      [] cmd[1] = "eval" -> [s EXCEPT !.out = @ \o EvalOutput(s.epos)]
      [] OTHER -> s

(***************************************************************************)
(* The session.  A session record s holds the object's fields              *)
(* (parameters, depth, num_nodes, turn_perspective, info, quit for         *)
(* _has_quit_command_been_sent, version), the process behind it (alive:    *)
(* poll() is None; epos, eopts: the position and the options the engine    *)
(* holds; out: the lines it has printed and the session has not read),     *)
(* and the run of the current handler: trace (what was written to the      *)
(* channel, and each readyok read), line (the line last read), ret, err.   *)
(* crashIn = n > 0: the process dies just before the n-th time from now    *)
(* that the session touches the channel.                                   *)
(***************************************************************************)
Ok(s) == s.err = "none"

Raise(s, e) == [s EXCEPT !.err = e]

Return(s, v) == [s EXCEPT !.ret = v]

NoneV == <<"None">>

Tick(s) ==
    IF s.crashIn = 1 THEN [s EXCEPT !.alive = FALSE, !.crashIn = 0]
    ELSE IF s.crashIn > 1 THEN [s EXCEPT !.crashIn = @ - 1]
    ELSE s

\* Stockfish._put.  The channel is opened with a write end (stdin = PIPE), so
\* the BrokenPipeError branch is never taken.  Write: from the poll on.
\* _put without `and not self._has_quit_command_been_sent`
Write_after_quit(s, command) ==
    IF s.alive
    THEN EngineReceive([s EXCEPT !.trace = Append(@, <<"send", command>>),
                                 !.quit = (@ \/ command[1] = "quit")],
                       command)
    ELSE s

\* _put raising BrokenPipeError where it finds the process exited
Write_broken(s, command) ==
    IF s.alive /\ ~s.quit
    THEN EngineReceive([s EXCEPT !.trace = Append(@, <<"send", command>>),
                                 !.quit = (command[1] = "quit")],
                       command)
    ELSE IF s.alive THEN s ELSE Raise(s, "BrokenPipeError")

\* the commands the engine answers with output
Answered == {"uci", "isready", "go", "d", "eval"}

\* the line a process prints when it starts, before any command
Banner(build) == <<"Stockfish", build, "by", "the", "Stockfish", "developers">>

\* What a write adds to the trace: the command, and before it a note when the
\* command is one the engine answers while output of an earlier command is
\* still unread.
Sending(s, command) ==
    IF command[1] \in Answered /\ s.out # <<>> /\ s.out # <<Banner(s.build)>>
    THEN << <<"undrained", command>>, <<"send", command>> >>
    ELSE << <<"send", command>> >>

Write(s, command) ==
    IF s.alive /\ ~s.quit
    THEN EngineReceive([s EXCEPT !.trace = @ \o Sending(s, command),
                                 !.quit = (command[1] = "quit")],
                       command)
    ELSE s

Put(s, command) == IF ~Ok(s) THEN s ELSE Write(Tick(s), command)

\* Stockfish._read_line.  With nothing left to read, readline() blocks: for
\* ever ("Hang") unless quit was sent, when the engine exits and the read
\* fails as any read from an exited process does.  Readline: from the poll on.
\* _read_line without its poll: it reads what the process has printed
Readline_unpolled(s) ==
    IF s.out # <<>>
    THEN [s EXCEPT !.line = Head(s.out), !.out = Tail(s.out),
                   !.trace = IF Head(s.out) = <<"readyok">>
                             THEN Append(@, <<"recv", <<"readyok">>>>) ELSE @]
    ELSE Raise(s, "Hang")

\* _read_line, were readline() never to return once the engine has exited
Readline_blocked(s) ==
    IF ~s.alive THEN Raise(s, "StockfishException")
    ELSE IF s.out # <<>>
    THEN [s EXCEPT !.line = Head(s.out), !.out = Tail(s.out),
                   !.trace = IF Head(s.out) = <<"readyok">>
                             THEN Append(@, <<"recv", <<"readyok">>>>) ELSE @]
    ELSE Raise(s, "Hang")

Readline(s) ==
    IF ~s.alive THEN Raise(s, "StockfishException")
    ELSE IF s.out # <<>>
    THEN [s EXCEPT !.line = Head(s.out), !.out = Tail(s.out),
                   !.trace = IF Head(s.out) = <<"readyok">>
                             THEN Append(@, <<"recv", <<"readyok">>>>) ELSE @]
    ELSE IF s.quit THEN Raise([s EXCEPT !.alive = FALSE], "StockfishException")
    ELSE Raise(s, "Hang")

ReadLine(s) == IF ~Ok(s) THEN s ELSE Readline(Tick(s))

\* `sub in line`, for the texts the session looks for
SubstrIn(sub, line) == \E i \in DOMAIN line : line[i] = sub \/ line[i] = sub \o ":"

\* The tests the read loops make on a line: the whole line, its first token
\* (split(" ")[0]), its start (startswith), or a text in it (`sub in line`).
LineIs(test, l) ==
    CASE test[1] = "equals" -> l = <<test[2]>>
      [] test[1] = "first" -> Len(l) > 0 /\ l[1] = test[2]
      [] test[1] = "startswith" -> Len(l) >= 2 /\ l[1] = test[2] /\ l[2] = test[3]
      [] test[1] = "in" -> SubstrIn(test[2], l)

\* a loop that reads lines until one passes the test; UntilLine: the loop's
\* test on the line just read
RECURSIVE ReadUntil(_, _)
UntilLine(s, test) == IF ~Ok(s) \/ LineIs(test, s.line) THEN s ELSE ReadUntil(s, test)

ReadUntil(s, test) == UntilLine(ReadLine(s), test)

\* `return v`, unless the handler has raised
Ret(s, v) == IF Ok(s) THEN Return(s, v) ELSE s

\* _discard_remaining_stdout_lines that reads nothing
DiscardRemainingStdoutLines_none(s, substr) == s

\* Stockfish._discard_remaining_stdout_lines
DiscardRemainingStdoutLines(s, substr) == ReadUntil(s, <<"in", substr>>)

\* Stockfish._is_ready
IsReady(s) == ReadUntil(Put(s, <<"isready">>), <<"equals", "readyok">>)

\* Stockfish._set_option: the text sent for a value, and the update of
\* self._parameters
StrRepValue(value) == IF value.kind = "bool" THEN Lower(PyStr(value)) ELSE PyStr(value)

\* the update of self._parameters, were it keyed by the text sent for the name
UpdateParametersAttribute_keyed(s, name, value, update_parameters_attribute) ==
    IF update_parameters_attribute
    THEN [s EXCEPT !.parameters = ParamsUpdate(@, "name " \o name, value)]
    ELSE s

UpdateParametersAttribute(s, name, value, update_parameters_attribute) ==
    IF update_parameters_attribute
    THEN [s EXCEPT !.parameters = ParamsUpdate(@, name, value)]
    ELSE s

\* _set_option without its last line, self._is_ready()
SetOption_unsynced(s, name, value, update_parameters_attribute) ==
    IF ~Ok(s) THEN s
    ELSE IF ValidateParamVal(name, value) # "ok" THEN Raise(s, "ValueError")
    ELSE UpdateParametersAttribute(
             Put(s, <<"setoption", "name", name, "value", StrRepValue(value)>>),
             name, value, update_parameters_attribute)

SetOption(s, name, value, update_parameters_attribute) ==
    IF ~Ok(s) THEN s
    ELSE IF ValidateParamVal(name, value) # "ok" THEN Raise(s, "ValueError")
    ELSE IsReady(UpdateParametersAttribute(
                     Put(s, <<"setoption", "name", name, "value", StrRepValue(value)>>),
                     name, value, update_parameters_attribute))

\* Stockfish._prepare_for_new_position
\* _prepare_for_new_position without `self.info = ""`
ClearInfo_kept(s) == s

ClearInfo(s) == IF Ok(s) THEN [s EXCEPT !.info = <<>>] ELSE s

\* _prepare_for_new_position, were the new game announced after the barrier
PrepareForNewPosition_late(s, send_ucinewgame_token) ==
    ClearInfo(IF send_ucinewgame_token THEN Put(IsReady(s), <<"ucinewgame">>) ELSE IsReady(s))

PrepareForNewPosition(s, send_ucinewgame_token) ==
    ClearInfo(IsReady(IF send_ucinewgame_token THEN Put(s, <<"ucinewgame">>) ELSE s))

\* Stockfish.set_fen_position
SetFenPosition(s, fen_position, send_ucinewgame_token) ==
    Put(PrepareForNewPosition(s, send_ucinewgame_token), <<"position", "fen">> \o fen_position)

\* Stockfish.get_fen_position; FenOfLine: from the "Fen:" line on
FenOfLine(s) == Ret(DiscardRemainingStdoutLines(s, "Checkers"), Tail(s.line))

GetFenPosition(s) == FenOfLine(ReadUntil(Put(s, <<"d">>), <<"first", "Fen:">>))

\* Stockfish._get_sf_go_command_output: ret is the list of lines read;
\* GoLine: the loop's test on the line just read
RECURSIVE GoLines(_, _)
GoLine(s, lines) ==
    IF ~Ok(s) THEN s
    ELSE IF Len(s.line) > 0 /\ s.line[1] = "bestmove" THEN Return(s, Append(lines, s.line))
    ELSE GoLines(s, Append(lines, s.line))

GoLines(s, lines) == GoLine(ReadLine(s), lines)

GetSfGoCommandOutput(s) == GoLines(s, <<>>)

\* Stockfish._get_best_move_from_sf_popen_process; BestMoveOf: from the lines on
\* _get_best_move_from_sf_popen_process with `self.info = lines[-1]`
BestMoveOf_last(s) ==
    IF ~Ok(s) THEN s
    ELSE IF Len(s.ret) < 2 THEN Raise(s, "IndexError")
    ELSE Return([s EXCEPT !.info = s.ret[Len(s.ret)]],
                IF s.ret[Len(s.ret)][2] = "(none)" THEN NoneV ELSE <<s.ret[Len(s.ret)][2]>>)

BestMoveOf(s) ==
    IF ~Ok(s) THEN s
    ELSE IF Len(s.ret) < 2 THEN Raise(s, "IndexError")
    ELSE Return([s EXCEPT !.info = s.ret[Len(s.ret) - 1]],
                IF s.ret[Len(s.ret)][2] = "(none)" THEN NoneV ELSE <<s.ret[Len(s.ret)][2]>>)

GetBestMoveFromSfPopenProcess(s) == BestMoveOf(GetSfGoCommandOutput(s))

\* Stockfish.is_move_correct; RestoreInfo: from `self.info = old_self_info` on
\* is_move_correct without `self.info = old_self_info`
RestoreInfo_kept(s, old_self_info) == IF Ok(s) THEN Return(s, s.ret # NoneV) ELSE s

RestoreInfo(s, old_self_info) ==
    IF Ok(s) THEN Return([s EXCEPT !.info = old_self_info], s.ret # NoneV) ELSE s

IsMoveCorrect(s, move_value) ==
    RestoreInfo(GetBestMoveFromSfPopenProcess(
                    Put(s, <<"go", "depth", "1", "searchmoves", move_value>>)),
                s.info)

\* the first loop of update_engine_parameters: the checks made on each entry
\* the first loop of update_engine_parameters, were it to stop after one entry
CheckNewParamValues_first(s, items) ==
    IF items = <<>> THEN "ok"
    ELSE IF Cardinality(DOMAIN s.parameters) > 0 /\ Head(items)[1] \notin DOMAIN s.parameters
    THEN "ValueError"
    ELSE IF Head(items)[1] \in {"Ponder", "UCI_Chess960", "UCI_LimitStrength"}
            /\ Head(items)[2].kind # "bool"
    THEN "ValueError"
    ELSE ValidateParamVal(Head(items)[1], Head(items)[2])

RECURSIVE CheckNewParamValues(_, _)
CheckNewParamValues(s, items) ==
    IF items = <<>> THEN "ok"
    ELSE LET key == Head(items)[1]
             val == Head(items)[2]
         IN  IF Cardinality(DOMAIN s.parameters) > 0 /\ key \notin DOMAIN s.parameters
             THEN "ValueError"
             ELSE IF key \in {"Ponder", "UCI_Chess960", "UCI_LimitStrength"} /\ val.kind # "bool"
             THEN "ValueError"
             ELSE IF ValidateParamVal(key, val) # "ok" THEN "ValueError"
             ELSE CheckNewParamValues(s, Tail(items))

\* update_engine_parameters without its strength coupling
CoupleLimitStrength_none(new_param_values) == new_param_values

\* the strength coupling of update_engine_parameters
CoupleLimitStrength(new_param_values) ==
    IF (("Skill Level" \in DictKeys(new_param_values)) # ("UCI_Elo" \in DictKeys(new_param_values)))
       /\ "UCI_LimitStrength" \notin DictKeys(new_param_values)
    THEN (IF "Skill Level" \in DictKeys(new_param_values)
          THEN DictSet(new_param_values, "UCI_LimitStrength", BoolV(FALSE))
          ELSE DictSet(new_param_values, "UCI_LimitStrength", BoolV(TRUE)))
    ELSE new_param_values

\* update_engine_parameters without its reordering
ThreadsBeforeHash_kept(new_param_values, hash_value) == new_param_values

\* the reordering of update_engine_parameters: Threads, then Hash, go last.
\* hash_value is only asked for when the batch holds Threads.
ThreadsBeforeHash(new_param_values, hash_value) ==
    IF "Threads" \in DictKeys(new_param_values)
    THEN LET threads_value == DictGet(new_param_values, "Threads")
             d1 == DictDel(new_param_values, "Threads")
             d2 == DictDel(d1, "Hash")
         IN  DictSet(DictSet(d2, "Threads", threads_value), "Hash", hash_value)
    ELSE new_param_values

\* the loop `for name, value in new_param_values.items(): self._set_option(name, value)`
RECURSIVE SetOptions(_, _)
SetOptions(s, items) ==
    IF items = <<>> \/ ~Ok(s) THEN s
    ELSE SetOptions(SetOption(s, Head(items)[1], Head(items)[2], TRUE), Tail(items))

\* Stockfish.update_engine_parameters; None and {} are both the empty batch.
\* SetToReported: set_fen_position(F, False) with the F that get_fen_position
\* returned; SetCoupled: from the reordering on.
\* the resend of the position, were it made with the ucinewgame token
SetToReported_newgame(s) ==
    IF Ok(s) THEN Return(SetFenPosition(s, s.ret, TRUE), NoneV) ELSE s

\* the resend of the position, were it written without the preparation
SetToReported_written(s) ==
    IF Ok(s) THEN Return(Put(s, <<"position", "fen">> \o s.ret), NoneV) ELSE s

SetToReported(s) == IF Ok(s) THEN Return(SetFenPosition(s, s.ret, FALSE), NoneV) ELSE s

SetCoupled(s, coupled) ==
    IF "Threads" \in DictKeys(coupled) /\ "Hash" \notin DictKeys(coupled)
       /\ "Hash" \notin DOMAIN s.parameters
    THEN Raise(s, "KeyError")
    ELSE SetToReported(GetFenPosition(SetOptions(s,
             ThreadsBeforeHash(coupled,
                               IF "Hash" \in DictKeys(coupled) THEN DictGet(coupled, "Hash")
                               ELSE IF "Hash" \in DOMAIN s.parameters THEN s.parameters["Hash"]
                               ELSE IntV(0)))))

UpdateEngineParameters(s, parameters) ==
    IF ~Ok(s) \/ parameters = <<>> THEN s
    ELSE IF CheckNewParamValues(s, parameters) # "ok" THEN Raise(s, "ValueError")
    ELSE SetCoupled(s, CoupleLimitStrength(parameters))

\* Stockfish.does_current_engine_version_have_wdl_option; WdlLine: the loop's
\* tests on the line just read
RECURSIVE WdlProbe(_)
WdlLine(s) ==
    IF ~Ok(s) THEN s
    ELSE IF Len(s.line) > 0 /\ s.line[1] = "uciok" THEN Return(s, FALSE)
    ELSE IF \E i \in DOMAIN s.line : s.line[i] = "UCI_ShowWDL"
    THEN Ret(DiscardRemainingStdoutLines(s, "uciok"), TRUE)
    ELSE WdlProbe(s)

WdlProbe(s) == WdlLine(ReadLine(s))

DoesCurrentEngineVersionHaveWdlOption(s) == WdlProbe(Put(s, <<"uci">>))

(***************************************************************************)
(* The version of the engine.  A version text is the tuple of its          *)
(* characters; a date is <<year, month, day>>.                             *)
(***************************************************************************)
\* Stockfish._RELEASES, in the order of the table
RELEASES ==
    << [key |-> <<"1", "6", ".", "0">>, date |-> <<2023, 6, 30>>],
       [key |-> <<"1", "5", ".", "1">>, date |-> <<2022, 12, 4>>],
       [key |-> <<"1", "5", ".", "0">>, date |-> <<2022, 4, 18>>],
       [key |-> <<"1", "4", ".", "1">>, date |-> <<2021, 10, 28>>],
       [key |-> <<"1", "4", ".", "0">>, date |-> <<2021, 7, 2>>],
       [key |-> <<"1", "3", ".", "0">>, date |-> <<2021, 2, 19>>],
       [key |-> <<"1", "2", ".", "0">>, date |-> <<2020, 9, 2>>],
       [key |-> <<"1", "1", ".", "0">>, date |-> <<2020, 1, 18>>],
       [key |-> <<"1", "0", ".", "0">>, date |-> <<2018, 11, 29>>] >>

IsDigit(c) == \E n \in 0 .. 9 : Digit(n) = c

DigitVal(c) == CHOOSE n \in 0 .. 9 : Digit(n) = c

RECURSIVE IntOfDigits(_)
IntOfDigits(chars) ==
    IF chars = <<>> THEN 0
    ELSE 10 * IntOfDigits(SubSeq(chars, 1, Len(chars) - 1)) + DigitVal(chars[Len(chars)])

\* int(text) of decimal digits; -1 stands for the ValueError int() raises
PyInt(chars) ==
    IF chars = <<>> \/ \E i \in DOMAIN chars : ~IsDigit(chars[i]) THEN -1
    ELSE IntOfDigits(chars)

\* text[a:b]
Slice(chars, a, b) == SubSeq(chars, a + 1, IF b < Len(chars) THEN b ELSE Len(chars))

\* text.split(sep)
RECURSIVE Split(_, _)
SplitAt(chars, k, sep) == <<SubSeq(chars, 1, k - 1)>> \o Split(SubSeq(chars, k + 1, Len(chars)), sep)

Split(chars, sep) ==
    IF \A i \in DOMAIN chars : chars[i] # sep THEN <<chars>>
    ELSE SplitAt(chars,
                 CHOOSE i \in DOMAIN chars : chars[i] = sep /\ \A j \in 1 .. (i - 1) : chars[j] # sep,
                 sep)

DaysIn(year, month) ==
    IF month \in {4, 6, 9, 11} THEN 30
    ELSE IF month # 2 THEN 31
    ELSE IF year % 4 = 0 /\ (year % 100 # 0 \/ year % 400 = 0) THEN 29 ELSE 28

\* datetime.strptime(date_string, "%Y-%m-%d") accepts the date
IsDate(year, month, day) ==
    /\ year >= 1000 /\ year <= 9999
    /\ month >= 1 /\ month <= 12
    /\ day >= 1 /\ day <= DaysIn(year, month)

\* the order of datetime objects
DateOrd(date) == date[1] * 10000 + date[2] * 100 + date[3]

RECURSIVE KeyForDate(_, _, _)
\* the loop, were it to keep every entry on or before the date in its turn
KeyForDate_last(i, date_object, key_for_date) ==
    IF i > Len(RELEASES) THEN key_for_date
    ELSE KeyForDate(i + 1, date_object,
                    IF DateOrd(RELEASES[i].date) <= DateOrd(date_object) THEN i ELSE key_for_date)

\* Stockfish._get_stockfish_version_from_build_date: the loop over the table,
\* from its i-th entry on; key_for_date is the index of the entry held, 0 for None
KeyForDate(i, date_object, key_for_date) ==
    IF i > Len(RELEASES) THEN key_for_date
    ELSE KeyForDate(i + 1, date_object,
                    IF /\ DateOrd(RELEASES[i].date) <= DateOrd(date_object)
                       /\ \/ key_for_date = 0
                          \/ DateOrd(RELEASES[i].date) > DateOrd(RELEASES[key_for_date].date)
                    THEN i ELSE key_for_date)

\* the text of the release found, or the failure: strptime rejects the date,
\* or no release is on or before it
TextOfRelease(s, key_for_date) ==
    IF key_for_date = 0 THEN Raise(s, "Exception")
    ELSE [s EXCEPT !.version.text = RELEASES[key_for_date].key]

GetStockfishVersionFromBuildDate(s, year, month, day) ==
    IF ~IsDate(year, month, day) THEN Raise(s, "Exception")
    ELSE TextOfRelease(s, KeyForDate(1, <<year, month, day>>, 0))

\* Stockfish._parse_stockfish_version.  DevBuild: `dev-YYYYMMDD-sha`,
\* DevDate: from build_date on; SixChars: `DDMMYY`; Numbers: major, minor
\* and full (held in tenths); every exception is raised again as Exception.
DevDate(s, build_date) ==
    IF \/ PyInt(Slice(build_date, 0, 4)) = -1
       \/ PyInt(Slice(build_date, 4, 6)) = -1
       \/ PyInt(Slice(build_date, 6, 8)) = -1
    THEN Raise(s, "Exception")
    ELSE GetStockfishVersionFromBuildDate(s, PyInt(Slice(build_date, 0, 4)),
                                          PyInt(Slice(build_date, 4, 6)),
                                          PyInt(Slice(build_date, 6, 8)))

DevParts(s, parts) ==
    IF Len(parts) < 3
    THEN Raise([s EXCEPT !.version.is_dev_build = TRUE, !.version.patch = parts[2]], "Exception")
    ELSE DevDate([s EXCEPT !.version.is_dev_build = TRUE, !.version.patch = parts[2],
                           !.version.sha = parts[3]],
                 parts[2])

DevBuild(s) ==
    IF Slice(s.version.text, 0, 4) = <<"d", "e", "v", "-">>
    THEN DevParts(s, Split(s.version.text, "-"))
    ELSE s

SixDate(s, build_date) ==
    IF \E i \in DOMAIN build_date : ~IsDigit(build_date[i]) THEN Raise(s, "Exception")
    ELSE GetStockfishVersionFromBuildDate(s, 2000 + PyInt(Slice(build_date, 4, 6)),
                                          PyInt(Slice(build_date, 2, 4)),
                                          PyInt(Slice(build_date, 0, 2)))

SixChars(s) ==
    IF ~Ok(s) THEN s
    ELSE IF Len(s.version.text) = 6
    THEN SixDate([s EXCEPT !.version.is_dev_build = TRUE, !.version.patch = s.version.text],
                 s.version.text)
    ELSE s

MajorMinor(s, major, minor) ==
    IF major = -1 THEN Raise(s, "Exception")
    ELSE IF minor = -1 THEN Raise([s EXCEPT !.version.major = major], "Exception")
    ELSE [s EXCEPT !.version.major = major, !.version.minor = minor,
                   !.version.full = 10 * major + minor]

Numbers(s, parts) ==
    IF ~Ok(s) THEN s
    ELSE MajorMinor(s, PyInt(parts[1]), IF Len(parts) >= 2 THEN PyInt(parts[2]) ELSE 0)

VersionNumbers(s) == IF ~Ok(s) THEN s ELSE Numbers(s, Split(s.version.text, "."))

ParseStockfishVersion(s, version_text) ==
    VersionNumbers(SixChars(DevBuild(
        [s EXCEPT !.version = [full |-> 0, major |-> 0, minor |-> 0, patch |-> <<>>, sha |-> <<>>,
                               is_dev_build |-> FALSE, text |-> version_text]])))

\* the characters of the version token of the `id name` line
VersionChars(token) ==
    CASE token = "16" -> <<"1", "6">>
      [] token = "11" -> <<"1", "1">>

\* Stockfish._set_stockfish_version; the version text is the fourth token of
\* the `id name` line.  ParseVersion: from the `id name` line on.
SetVersion(s, line) ==
    IF ~Ok(s) THEN s
    ELSE IF Len(line) < 4 THEN Raise(s, "IndexError")
    ELSE ParseStockfishVersion(s, VersionChars(line[4]))

ParseVersion(s) == SetVersion(DiscardRemainingStdoutLines(s, "uciok"), s.line)

SetStockfishVersion(s) == ParseVersion(ReadUntil(Put(s, <<"uci">>), <<"startswith", "id", "name">>))

\* Stockfish.set_depth and Stockfish.set_num_nodes, on a Python value
SetDepth(s, depth_value) ==
    IF ~Ok(s) THEN s
    ELSE IF depth_value.kind # "int" \/ depth_value.n < 1 THEN Raise(s, "TypeError")
    ELSE [s EXCEPT !.depth = depth_value.n]

SetNumNodes(s, num_nodes_value) ==
    IF ~Ok(s) THEN s
    ELSE IF num_nodes_value.kind # "int" \/ num_nodes_value.n < 1 THEN Raise(s, "TypeError")
    ELSE [s EXCEPT !.num_nodes = num_nodes_value.n]

\* Stockfish.set_turn_perspective
SetTurnPerspective(s, turn_perspective_value) ==
    IF ~Ok(s) THEN s
    ELSE IF turn_perspective_value.kind # "bool" THEN Raise(s, "TypeError")
    ELSE [s EXCEPT !.turn_perspective = (turn_perspective_value.n = 1)]

\* a process just started by subprocess.Popen: it has printed its banner
Popen(build, hasWdl, crashIn) ==
    [parameters |-> EmptyParams, depth |-> 0, num_nodes |-> 0, turn_perspective |-> TRUE,
     info |-> <<>>, quit |-> FALSE, version |-> "",
     alive |-> TRUE, epos |-> StartFen, eopts |-> EngineDefaults,
     out |-> <<Banner(build)>>,
     build |-> build, hasWdl |-> hasWdl,
     trace |-> <<>>, line |-> <<>>, ret |-> NoneV, err |-> "none", warned |-> FALSE,
     dels |-> 0, crashIn |-> crashIn]

\* Stockfish.__init__; ShowWdl: `if self.does_current_engine_version_have_wdl_option():
\* self._set_option("UCI_ShowWDL", True, False)`
ShowWdl(s) ==
    IF Ok(s) /\ s.ret = TRUE THEN SetOption(s, "UCI_ShowWDL", BoolV(TRUE), FALSE) ELSE s

New(build, hasWdl, depth_value, params, num_nodes_value, turn_perspective_value, crashIn) ==
    Ret(PrepareForNewPosition(
            ShowWdl(DoesCurrentEngineVersionHaveWdlOption(
                UpdateEngineParameters(
                    UpdateEngineParameters(
                        SetTurnPerspective(
                            SetNumNodes(
                                SetDepth(Put(SetStockfishVersion(Popen(build, hasWdl, crashIn)),
                                             <<"uci">>),
                                         depth_value),
                                num_nodes_value),
                            turn_perspective_value),
                        DEFAULT_STOCKFISH_PARAMS),
                    params))),
            TRUE),
        NoneV)

\* Stockfish.send_quit_command: the wait ends when the process has exited,
\* which an engine that was sent quit does.  WaitForExit: the `while` loop.
WaitForExit(s) == IF s.alive /\ ~s.quit THEN Raise(s, "Hang") ELSE [s EXCEPT !.alive = FALSE]

\* send_quit_command, were it to write quit whatever the process and the flag
QuitIfRunning_always(s) ==
    [s EXCEPT !.trace = Append(@, <<"send", <<"quit">>>>), !.quit = TRUE, !.alive = FALSE]

QuitIfRunning(s) == IF s.alive THEN WaitForExit(Put(s, <<"quit">>)) ELSE s

SendQuitCommand(s) == QuitIfRunning(Tick(s))

\* Stockfish.__del__.  DelCount: `Stockfish._del_counter += 1`, on the counter
\* of the class; dels is by how much the running call has raised it.
DelCount(s) == [s EXCEPT !.dels = @ + 1]

\* __del__ without its count
Del_uncounted(s) == SendQuitCommand(s)

Del(s) == SendQuitCommand(DelCount(s))

(***************************************************************************)
(* Stockfish._is_fen_syntax_valid.  Chars gives the characters of the      *)
(* texts that occur as FEN fields here.                                    *)
(***************************************************************************)
Chars(t) ==
    CASE t = "rnbqkbnr/pppppppp/8/8/8/8/PPPPPPPP/RNBQKBNR" ->
          <<"r", "n", "b", "q", "k", "b", "n", "r", "/", "p", "p", "p", "p", "p", "p", "p", "p", "/", "8", "/", "8", "/", "8", "/", "8", "/", "P", "P", "P", "P", "P", "P", "P", "P", "/", "R", "N", "B", "Q", "K", "B", "N", "R">>
      [] t = "1nb1k1n1/pppppppp/8/6r1/5bqK/6r1/8/8" ->
          <<"1", "n", "b", "1", "k", "1", "n", "1", "/", "p", "p", "p", "p", "p", "p", "p", "p", "/", "8", "/", "6", "r", "1", "/", "5", "b", "q", "K", "/", "6", "r", "1", "/", "8", "/", "8">>
      [] t = "2k2q2/8/8/8/8/8/8/2Q2K2" ->
          <<"2", "k", "2", "q", "2", "/", "8", "/", "8", "/", "8", "/", "8", "/", "8", "/", "8", "/", "2", "Q", "2", "K", "2">>
      [] t = "4k3/8/4K3/8/8/8/8/8" ->
          <<"4", "k", "3", "/", "8", "/", "4", "K", "3", "/", "8", "/", "8", "/", "8", "/", "8", "/", "8">>
      [] t = "4k3/8/4K3/71/8/8/8/8" ->
          <<"4", "k", "3", "/", "8", "/", "4", "K", "3", "/", "7", "1", "/", "8", "/", "8", "/", "8", "/", "8">>
      [] t = "rnbqkbnr/pppppppp/8/8/4P3/8/PPPP1PPP/RNBQKBNR" ->
          <<"r", "n", "b", "q", "k", "b", "n", "r", "/", "p", "p", "p", "p", "p", "p", "p", "p", "/", "8", "/", "8", "/", "4", "P", "3", "/", "8", "/", "P", "P", "P", "P", "1", "P", "P", "P", "/", "R", "N", "B", "Q", "K", "B", "N", "R">>
      [] t = "rnbqkbnr/pppp1ppp/8/4p3/4P3/8/PPPP1PPP/RNBQKBNR" ->
          <<"r", "n", "b", "q", "k", "b", "n", "r", "/", "p", "p", "p", "p", "1", "p", "p", "p", "/", "8", "/", "4", "p", "3", "/", "4", "P", "3", "/", "8", "/", "P", "P", "P", "P", "1", "P", "P", "P", "/", "R", "N", "B", "Q", "K", "B", "N", "R">>
      [] t = "6r1/8/8/8/8/8/k7/7K" ->
          <<"6", "r", "1", "/", "8", "/", "8", "/", "8", "/", "8", "/", "8", "/", "k", "7", "/", "7", "K">>
      [] t = "6r1/8/8/8/8/8/k6K/8" ->
          <<"6", "r", "1", "/", "8", "/", "8", "/", "8", "/", "8", "/", "8", "/", "k", "6", "K", "/", "8">>
      [] t = "w" ->
          <<"w">>
      [] t = "b" ->
          <<"b">>
      [] t = "W" ->
          <<"W">>
      [] t = "-" ->
          <<"-">>
      [] t = "KQkq" ->
          <<"K", "Q", "k", "q">>
      [] t = "kq" ->
          <<"k", "q">>
      [] t = "0" ->
          <<"0">>
      [] t = "1" ->
          <<"1">>
      [] t = "2" ->
          <<"2">>
      [] t = "10" ->
          <<"1", "0">>
      [] t = "50" ->
          <<"5", "0">>
      [] t = "99" ->
          <<"9", "9">>
      [] t = "ee" ->
          <<"e", "e">>
      [] t = "e3" ->
          <<"e", "3">>
      [] OTHER -> <<>>

\* text.split("/"), on characters
RECURSIVE SplitSlash(_, _)
SplitSlash(cs, cur) ==
    IF cs = <<>> THEN <<cur>>
    ELSE IF Head(cs) = "/" THEN <<cur>> \o SplitSlash(Tail(cs), <<>>)
    ELSE SplitSlash(Tail(cs), Append(cur, Head(cs)))

DigitChars == {"0", "1", "2", "3", "4", "5", "6", "7", "8", "9"}

DigitValue(c) == CHOOSE d \in 0 .. 9 : Digit(d) = c

\* str.isdigit() and int(), on characters
IsDigits(cs) == cs # <<>> /\ \A i \in DOMAIN cs : cs[i] \in DigitChars

RECURSIVE DecimalValue(_)
DecimalValue(cs) ==
    IF cs = <<>> THEN 0
    ELSE 10 * DecimalValue(SubSeq(cs, 1, Len(cs) - 1)) + DigitValue(cs[Len(cs)])

PIECE_CHARS == {"P", "N", "B", "R", "Q", "K", "p", "n", "b", "r", "q", "k"}

\* the regular expression, field by field
FenMatchesPattern(fen) ==
    /\ Len(fen) = 6
    /\ LET ranks == SplitSlash(Chars(fen[1]), <<>>) IN
       /\ Len(ranks) = 8
       /\ \A r \in DOMAIN ranks :
            /\ ranks[r] # <<>>
            /\ \A i \in DOMAIN ranks[r] :
                 ranks[r][i] \in {"r", "n", "b", "q", "k", "p", "R", "N", "B", "Q", "K", "P",
                                  "1", "2", "3", "4", "5", "6", "7", "8"}
    /\ fen[2] \in {"b", "|", "w"}
    /\ \/ fen[3] = "-"
       \/ LET cs == Chars(fen[3]) IN
          /\ Len(cs) \in 1 .. 4
          /\ \A i \in DOMAIN cs : cs[i] \in {"K", "|", "Q", "k", "q"}
    /\ \/ fen[4] = "-"
       \/ LET cs == Chars(fen[4]) IN
          /\ Len(cs) = 2
          /\ cs[1] \in {"a", "b", "c", "d", "e", "f", "g", "h"}
          /\ cs[2] \in {"1", "2", "3", "4", "5", "6", "7", "8"}
    /\ IsDigits(Chars(fen[5]))
    /\ IsDigits(Chars(fen[6]))

\* the loop over one rank: FALSE for two digits in a row, a character that is
\* no piece, or a total other than 8
RECURSIVE RankOk(_, _, _)
RankOk(cs, field_sum, previous_was_digit) ==
    IF cs = <<>> THEN field_sum = 8
    ELSE IF Head(cs) \in {"1", "2", "3", "4", "5", "6", "7", "8"}
    THEN ~previous_was_digit /\ RankOk(Tail(cs), field_sum + DigitValue(Head(cs)), TRUE)
    ELSE Head(cs) \in PIECE_CHARS /\ RankOk(Tail(cs), field_sum + 1, FALSE)

IsFenSyntaxValid(fen) ==
    /\ FenMatchesPattern(fen)
    /\ LET board == Chars(fen[1])
           ranks == SplitSlash(board, <<>>)
       IN /\ Len(ranks) = 8
          /\ \A x \in {"K", "k"} : \E i \in DOMAIN board : board[i] = x
          /\ DecimalValue(Chars(fen[5])) < DecimalValue(Chars(fen[6])) * 2
          /\ \A r \in DOMAIN ranks : RankOk(ranks[r], 0, FALSE)

(***************************************************************************)
(* The query operations.                                                   *)
(***************************************************************************)
IntPool == (-100 .. 40) \cup {50 * k : k \in 1 .. 10} \cup {1000000}

IntTexts == [n \in IntPool |-> IntToStr(n)]

\* int(token), for the numbers the engine prints here
ParseInt(t) == IF \E n \in IntPool : IntTexts[n] = t
               THEN CHOOSE n \in IntPool : IntTexts[n] = t
               ELSE 0

\* Stockfish._on_weaker_setting
OnWeakerSetting(s) ==
    s.parameters["UCI_LimitStrength"].n = 1 \/ s.parameters["Skill Level"].n < 20

\* Stockfish._weaker_setting_warning, when the session is on a weaker setting
WarnIfWeaker(s) == IF Ok(s) /\ OnWeakerSetting(s) THEN [s EXCEPT !.warned = TRUE] ELSE s

HasToken(line, tok) == \E i \in DOMAIN line : line[i] = tok

\* Stockfish._pick: the token `index` places after the first `value`
Pick(line, value, index) ==
    line[(CHOOSE i \in DOMAIN line : line[i] = value /\ \A j \in 1 .. (i - 1) : line[j] # value) + index]

SomeInt(n) == [none |-> FALSE, n |-> n]

NoInt == [none |-> TRUE, n |-> 0]

\* `"w" in fen`: of the six fields only the side to move can hold a "w"
HasW(fen) == \E i \in DOMAIN fen : fen[i] = "w"

\* the dictionary get_top_moves builds from one line
MoveEvaluation(line, perspective) ==
    [Move |-> Pick(line, "pv", 1),
     Centipawn |-> IF HasToken(line, "cp")
                   THEN SomeInt(ParseInt(Pick(line, "cp", 1)) * perspective) ELSE NoInt,
     Mate |-> IF HasToken(line, "mate")
              THEN SomeInt(ParseInt(Pick(line, "mate", 1)) * perspective) ELSE NoInt]

VerboseFields(line) ==
    [Time |-> Pick(line, "time", 1), Nodes |-> Pick(line, "nodes", 1),
     MultiPVLine |-> Pick(line, "multipv", 1), NodesPerSecond |-> Pick(line, "nps", 1),
     SelectiveDepth |-> Pick(line, "seldepth", 1)]

WdlField(line, perspective) ==
    [WDL |-> IF perspective = 1
             THEN <<Pick(line, "wdl", 1), Pick(line, "wdl", 2), Pick(line, "wdl", 3)>>
             ELSE <<Pick(line, "wdl", 3), Pick(line, "wdl", 2), Pick(line, "wdl", 1)>>]

\* the loop of get_top_moves, were it to take every line before `bestmove`
TopMovesLoop_all(s, lines, i, top_moves, num_nodes_arg, verbose, perspective) ==
    IF ~Ok(s) THEN s
    ELSE IF lines[Len(lines)][2] = "(none)" THEN Return(s, <<>>)
    ELSE Return(s, [k \in 1 .. (Len(lines) - 1) |-> MoveEvaluation(lines[k], perspective)])

\* the loop of get_top_moves over the lines, last line first; VerboseLine:
\* the `if verbose:` block, once the engine has been asked for its options
RECURSIVE TopMovesLoop(_, _, _, _, _, _, _)
VerboseLine(s, lines, i, top_moves, num_nodes_arg, verbose, perspective) ==
    IF ~Ok(s) THEN s
    ELSE IF s.ret = TRUE /\ ~HasToken(lines[i], "wdl") THEN Raise(s, "ValueError")
    ELSE TopMovesLoop(s, lines, i - 1,
                      <<MoveEvaluation(lines[i], perspective) @@ VerboseFields(lines[i])
                        @@ (IF s.ret = TRUE THEN WdlField(lines[i], perspective)
                            ELSE [x \in {} |-> 0])>> \o top_moves,
                      num_nodes_arg, verbose, perspective)

TopMovesLoop(s, lines, i, top_moves, num_nodes_arg, verbose, perspective) ==
    IF ~Ok(s) THEN s
    ELSE IF i = 0 THEN Return(s, top_moves)
    ELSE LET line == lines[i] IN
         IF Len(line) > 0 /\ line[1] = "bestmove"
         THEN (IF line[2] = "(none)" THEN Return(s, <<>>)
               ELSE TopMovesLoop(s, lines, i - 1, top_moves, num_nodes_arg, verbose, perspective))
         ELSE IF ~HasToken(line, "multipv") \/ ~HasToken(line, "depth") THEN Return(s, top_moves)
         ELSE IF num_nodes_arg = 0 /\ ParseInt(Pick(line, "depth", 1)) # s.depth
         THEN Return(s, top_moves)
         ELSE IF num_nodes_arg > 0 /\ ParseInt(Pick(line, "nodes", 1)) < s.num_nodes
         THEN Return(s, top_moves)
         ELSE IF ~verbose
         THEN TopMovesLoop(s, lines, i - 1, <<MoveEvaluation(line, perspective)>> \o top_moves,
                           num_nodes_arg, verbose, perspective)
         ELSE VerboseLine(DoesCurrentEngineVersionHaveWdlOption(s), lines, i, top_moves,
                          num_nodes_arg, verbose, perspective)

\* Stockfish.get_top_moves, in its steps: the MultiPV override, the search,
\* the reading of the lines, and the two restores
\* the MultiPV override, were it sent without updating self._parameters
SetMultiPV_unrecorded(s, num_top_moves) ==
    IF num_top_moves # s.parameters["MultiPV"].n
    THEN SetOption(s, "MultiPV", IntV(num_top_moves), FALSE)
    ELSE s

SetMultiPV(s, num_top_moves) ==
    IF num_top_moves # s.parameters["MultiPV"].n
    THEN SetOption(s, "MultiPV", IntV(num_top_moves), TRUE)
    ELSE s

StartSearch(s, num_nodes_arg) ==
    IF ~Ok(s) THEN s
    ELSE IF num_nodes_arg = 0 THEN Put(s, <<"go", "depth", IntToStr(s.depth)>>)
    ELSE Put([s EXCEPT !.num_nodes = num_nodes_arg], <<"go", "nodes", IntToStr(num_nodes_arg)>>)

TopMovesFrom(s, lines, num_nodes_arg, verbose) ==
    IF ~Ok(s) THEN s
    ELSE TopMovesLoop(s, lines, Len(lines), <<>>, num_nodes_arg, verbose,
                      IF s.turn_perspective \/ HasW(s.ret) THEN 1 ELSE -1)

LinesToMoves(s, num_nodes_arg, verbose) ==
    IF ~Ok(s) THEN s
    ELSE TopMovesFrom(IF ~s.turn_perspective THEN GetFenPosition(s) ELSE s, s.ret,
                      num_nodes_arg, verbose)

RestoreNumNodes(s, old_num_nodes, top_moves) ==
    IF Ok(s) THEN Return([s EXCEPT !.num_nodes = old_num_nodes], top_moves) ELSE s

\* get_top_moves without its `self._set_option("MultiPV", old_multipv)`
RestoreMultiPV_skipped(s, old_multipv, old_num_nodes) ==
    IF ~Ok(s) THEN s ELSE RestoreNumNodes(s, old_num_nodes, s.ret)

RestoreMultiPV(s, old_multipv, old_num_nodes) ==
    IF ~Ok(s) THEN s
    ELSE RestoreNumNodes(IF old_multipv # s.parameters["MultiPV"]
                         THEN SetOption(s, "MultiPV", old_multipv, TRUE)
                         ELSE s,
                         old_num_nodes, s.ret)

GetTopMoves(s, num_top_moves, verbose, num_nodes_arg) ==
    IF ~Ok(s) THEN s
    ELSE IF num_top_moves <= 0 THEN Raise(s, "ValueError")
    ELSE RestoreMultiPV(
             LinesToMoves(
                 GetSfGoCommandOutput(
                     StartSearch(SetMultiPV(WarnIfWeaker(s), num_top_moves), num_nodes_arg)),
                 num_nodes_arg, verbose),
             s.parameters["MultiPV"], s.num_nodes)

\* the loop of make_moves_from_current_position; a rejected move is named in
\* the error (kept in ret).  CheckedMove: from the verdict of is_move_correct
\* on; PlayMove: the `position` command, with the FEN get_fen_position returned
RECURSIVE MakeMovesLoop(_, _)
PlayMove(s, moves) ==
    IF ~Ok(s) THEN s
    ELSE MakeMovesLoop(Put(s, <<"position", "fen">> \o s.ret \o <<"moves", Head(moves)>>),
                       Tail(moves))

CheckedMove(s, moves) ==
    IF ~Ok(s) THEN s
    ELSE IF ~s.ret THEN Return(Raise(s, "ValueError"), <<"Cannot make move:", Head(moves)>>)
    ELSE PlayMove(GetFenPosition(s), moves)

MakeMovesLoop(s, moves) ==
    IF ~Ok(s) \/ moves = <<>> THEN s
    ELSE CheckedMove(IsMoveCorrect(s, Head(moves)), moves)

\* Stockfish.make_moves_from_current_position; None and [] are both the empty list
MakeMovesFromCurrentPosition(s, moves) ==
    IF ~Ok(s) \/ moves = <<>> THEN s
    ELSE Ret(MakeMovesLoop(PrepareForNewPosition(s, FALSE), moves), NoneV)

\* Stockfish.set_position
SetPosition(s, moves) == MakeMovesFromCurrentPosition(SetFenPosition(s, StartFen, TRUE), moves)

\* Stockfish.set_skill_level
SetSkillLevel(s, skill_level) ==
    UpdateEngineParameters(s, << <<"UCI_LimitStrength", BoolV(FALSE)>>, <<"Skill Level", skill_level>> >>)

\* Stockfish.set_elo_rating
SetEloRating(s, elo_rating) ==
    UpdateEngineParameters(s, << <<"UCI_LimitStrength", BoolV(TRUE)>>, <<"UCI_Elo", elo_rating>> >>)

\* Stockfish.resume_full_strength
ResumeFullStrength(s) ==
    UpdateEngineParameters(s, << <<"UCI_LimitStrength", BoolV(FALSE)>>, <<"Skill Level", IntV(20)>> >>)

\* reset_engine_parameters, were it to do nothing
ResetEngineParameters_none(s) == s

\* Stockfish.reset_engine_parameters
ResetEngineParameters(s) == UpdateEngineParameters(s, DEFAULT_STOCKFISH_PARAMS)

\* Stockfish.is_fen_valid, run on the calling session s.  The result holds the
\* calling session (s), whether a disposable session was created, and that
\* session as the call leaves it (t); torn: its __del__ was called.
\* FenVerdict: what the try statement returns or raises, its finally clause
\* having run; SearchOnTemp: from the try statement on.
FenVerdict(s, searched, deleted) ==
    [s |-> IF ~Ok(deleted) THEN Raise(s, deleted.err)
           ELSE IF searched.err = "StockfishException" THEN Return(s, FALSE)
           ELSE IF Ok(searched) THEN Return(s, searched.ret # NoneV)
           ELSE Raise(s, searched.err),
     created |-> TRUE, torn |-> TRUE, t |-> deleted]

\* is_fen_valid without its finally clause, temp_sf.__del__()
FinallyDel_skipped(s, searched) == FenVerdict(s, searched, searched)

FinallyDel(s, searched) == FenVerdict(s, searched, Del([searched EXCEPT !.err = "none"]))

\* is_fen_valid, were it to search on the calling session
SearchOnTemp_self(s, temp) ==
    [s |-> GetBestMoveFromSfPopenProcess(Put(s, <<"go", "depth", "10">>)),
     created |-> TRUE, torn |-> TRUE, t |-> temp]

SearchOnTemp(s, temp) ==
    IF ~Ok(temp)
    THEN [s |-> Raise(s, temp.err), created |-> TRUE, torn |-> FALSE, t |-> temp]
    ELSE FinallyDel(s, GetBestMoveFromSfPopenProcess(Put(temp, <<"go", "depth", "10">>)))

\* is_fen_valid without its syntax check
IsFenValid_unchecked(s, fen, crashIn) ==
    SearchOnTemp(s, SetFenPosition(New(s.build, s.hasWdl, IntV(15),
                                       << <<"Hash", IntV(1)>> >>, IntV(1000000),
                                       BoolV(TRUE), crashIn),
                                   fen, FALSE))

IsFenValid(s, fen, crashIn) ==
    IF ~IsFenSyntaxValid(fen)
    THEN [s |-> Return(s, FALSE), created |-> FALSE, torn |-> FALSE,
          t |-> Popen(s.build, s.hasWdl, 0)]
    ELSE SearchOnTemp(s, SetFenPosition(New(s.build, s.hasWdl, IntV(15),
                                            << <<"Hash", IntV(1)>> >>, IntV(1000000),
                                            BoolV(TRUE), crashIn),
                                        fen, FALSE))

(***************************************************************************)
(* The state: one session object and its engine process, and what the last *)
(* call did.                                                               *)
(*   parameters .. version     the object's fields                         *)
(*   alive, epos, eopts, out   the process: running, its position, the     *)
(*                             options it was sent, its unread output      *)
(*   engine                    the build behind the path                   *)
(*   pc                        "idle", or "returned" (a call has ended and *)
(*                             the caller looks at what it did), or "hung" *)
(*   lastOp, trace, temp_sf    the call that ended last: its name,         *)
(*                             arguments and outcome, what it wrote to the *)
(*                             channel, and the disposable session it used *)
(*                             lastOp.dels: by how much the call raised    *)
(*                             Stockfish._del_counter, the one counter of  *)
(*                             the class, which grows without bound        *)
(*   barrier                   the end of the channel's history, from a    *)
(*                             setoption or position that still waits for  *)
(*                             its readyok; else empty                     *)
(*   missed                    the kinds of command (setoption, position)  *)
(*                             that the last call let be followed by a     *)
(*                             command before their readyok was read       *)
(*   quitWrites                how often quit was written to the channel   *)
(*   teardowns                 how many calls of send_quit_command and of  *)
(*                             __del__ have returned (counted to           *)
(*                             MaxTeardowns)                               *)
(***************************************************************************)
VARIABLES parameters, depth, num_nodes, turn_perspective, info,
          has_quit_command_been_sent, version,
          alive, epos, eopts, out, engine,
          pc, lastOp, trace, temp_sf, barrier, missed, quitWrites, teardowns

vars == <<parameters, depth, num_nodes, turn_perspective, info,
          has_quit_command_been_sent, version,
          alive, epos, eopts, out, engine,
          pc, lastOp, trace, temp_sf, barrier, missed, quitWrites, teardowns>>

\* teardown calls are counted up to
MaxTeardowns == 2

\* The barrier protocol over a stretch h of the channel's history.  h[i] is a
\* setoption or a position written to the channel.  It is confirmed when the
\* next command written is isready and its readyok is read before any further
\* command; it is missed when a command was written that should not have been
\* (something other than isready, or anything before the readyok); else it is
\* still open.
IsSend(ev, names) == ev[1] = "send" /\ ev[2][1] \in names

NeedsBarrier(h) == {i \in DOMAIN h : IsSend(h[i], {"setoption", "position"})}

\* the index of the first command written after h[i], or 0
NextSend(h, i) ==
    LET later == {j \in DOMAIN h : j > i /\ h[j][1] = "send"} IN
    IF later = {} THEN 0 ELSE CHOOSE j \in later : \A k \in later : j <= k

ReadyokBetween(h, j, n) ==
    \E k \in DOMAIN h : k > j /\ (n = 0 \/ k < n) /\ h[k] = <<"recv", <<"readyok">>>>

Missed(h, i) ==
    LET j == NextSend(h, i) IN
    /\ j # 0
    /\ \/ h[j][2][1] # "isready"
       \/ NextSend(h, j) # 0 /\ ~ReadyokBetween(h, j, NextSend(h, j))

Confirmed(h, i) ==
    LET j == NextSend(h, i) IN
    j # 0 /\ h[j][2][1] = "isready" /\ ReadyokBetween(h, j, NextSend(h, j))

\* the kinds of command (setoption, position) whose barrier was missed in h
MissedKinds(h) == {h[i][2][1] : i \in {k \in NeedsBarrier(h) : Missed(h, k)}}

\* what of h a later command must still respect: from the open setoption or
\* position on
StillOpen(h) ==
    LET open == {i \in NeedsBarrier(h) : ~Missed(h, i) /\ ~Confirmed(h, i)} IN
    IF open = {} THEN <<>> ELSE SubSeq(h, CHOOSE i \in open : TRUE, Len(h))

\* the commands written to the channel, in order
Sent(events) == SelectSeq(events, LAMBDA ev : ev[1] = "send")

QuitCount(events) == Len(SelectSeq(events, LAMBDA ev : ev[1] = "send" /\ ev[2][1] = "quit"))

NoTemp == [created |-> FALSE, torn |-> FALSE, alive |-> FALSE, quit |-> FALSE]

TempOf(r) == [created |-> r.created, torn |-> r.torn, alive |-> r.t.alive, quit |-> r.t.quit]

\* the session object and its process, entering a handler
Self(crashIn) ==
    [parameters |-> parameters, depth |-> depth, num_nodes |-> num_nodes,
     turn_perspective |-> turn_perspective, info |-> info,
     quit |-> has_quit_command_been_sent, version |-> version,
     alive |-> alive, epos |-> epos, eopts |-> eopts, out |-> out,
     build |-> engine.build, hasWdl |-> engine.hasWdl,
     trace |-> <<>>, line |-> <<>>, ret |-> NoneV, err |-> "none", warned |-> FALSE,
     dels |-> 0, crashIn |-> crashIn]

\* the handler `op` has run from Self to r, and returned or raised
Ends(op, args, crashIn, r, temp) ==
    /\ parameters' = r.parameters
    /\ depth' = r.depth
    /\ num_nodes' = r.num_nodes
    /\ turn_perspective' = r.turn_perspective
    /\ info' = r.info
    /\ has_quit_command_been_sent' = r.quit
    /\ version' = r.version
    /\ alive' = r.alive
    /\ epos' = r.epos
    /\ eopts' = r.eopts
    /\ out' = r.out
    /\ engine' = engine
    /\ pc' = IF r.err = "Hang" THEN "hung" ELSE "returned"
    /\ lastOp' = [op |-> op, args |-> args, crashIn |-> crashIn, err |-> r.err, ret |-> r.ret,
                  warned |-> r.warned, dels |-> r.dels]
    /\ trace' = r.trace
    /\ temp_sf' = temp
    /\ barrier' = StillOpen(barrier \o r.trace)
    /\ missed' = MissedKinds(barrier \o r.trace)
    /\ quitWrites' = quitWrites + QuitCount(r.trace)
    /\ teardowns' = IF op \in {"send_quit_command", "__del__"} /\ r.err # "Hang"
                    THEN Min(teardowns + 1, MaxTeardowns)
                    ELSE teardowns

NoOp == [op |-> "", args |-> <<>>, crashIn |-> 0, err |-> "none", ret |-> NoneV, warned |-> FALSE,
         dels |-> 0]

\* the engine builds a session may be started on: the version text each
\* prints, and whether it has the UCI_ShowWDL option
Builds == {[build |-> "16", hasWdl |-> TRUE], [build |-> "11", hasWdl |-> FALSE]}

\* the state in which the constructor, having run to r, leaves a session on
\* the build b
Constructed(r, b) ==
    /\ parameters = r.parameters
    /\ depth = r.depth
    /\ num_nodes = r.num_nodes
    /\ turn_perspective = r.turn_perspective
    /\ info = r.info
    /\ has_quit_command_been_sent = r.quit
    /\ version = r.version
    /\ alive = r.alive
    /\ epos = r.epos
    /\ eopts = r.eopts
    /\ out = r.out
    /\ engine = b
    /\ pc = "returned"
    /\ lastOp = [op |-> "__init__", args |-> <<>>, crashIn |-> 0, err |-> r.err, ret |-> r.ret,
                 warned |-> r.warned, dels |-> r.dels]
    /\ trace = r.trace
    /\ temp_sf = NoTemp
    /\ barrier = StillOpen(r.trace)
    /\ missed = MissedKinds(r.trace)
    /\ quitWrites = 0
    /\ teardowns = 0

\* Stockfish(): the state after construction with the default arguments
InitOn(b) ==
    Constructed(New(b.build, b.hasWdl, IntV(15), <<>>, IntV(1000000), BoolV(TRUE), 0), b)

Init == \E b \in Builds : InitOn(b)

(***************************************************************************)
(* The calls a caller makes on the session, one action each.  crashIn, when *)
(* not 0, is the channel access of the call at which the engine process is *)
(* found to have died.                                                     *)
(***************************************************************************)
Call_update_engine_parameters(batch, crashIn) ==
    /\ pc = "idle"
    /\ Ends("update_engine_parameters", <<batch>>, crashIn, UpdateEngineParameters(Self(crashIn), batch), NoTemp)

Call_reset_engine_parameters ==
    /\ pc = "idle"
    /\ Ends("reset_engine_parameters", <<>>, 0, ResetEngineParameters(Self(0)), NoTemp)

Call_set_skill_level(skill_level) ==
    /\ pc = "idle"
    /\ Ends("set_skill_level", <<skill_level>>, 0, SetSkillLevel(Self(0), skill_level), NoTemp)

Call_set_elo_rating(elo_rating) ==
    /\ pc = "idle"
    /\ Ends("set_elo_rating", <<elo_rating>>, 0, SetEloRating(Self(0), elo_rating), NoTemp)

Call_resume_full_strength ==
    /\ pc = "idle"
    /\ Ends("resume_full_strength", <<>>, 0, ResumeFullStrength(Self(0)), NoTemp)

Call_set_fen_position(fen, send_ucinewgame_token) ==
    /\ pc = "idle"
    /\ Ends("set_fen_position", <<fen, send_ucinewgame_token>>, 0,
            Return(SetFenPosition(Self(0), fen, send_ucinewgame_token), NoneV), NoTemp)

Call_set_position(moves) ==
    /\ pc = "idle"
    /\ Ends("set_position", <<moves>>, 0, SetPosition(Self(0), moves), NoTemp)

Call_make_moves_from_current_position(moves, crashIn) ==
    /\ pc = "idle"
    /\ Ends("make_moves_from_current_position", <<moves>>, crashIn,
            MakeMovesFromCurrentPosition(Self(crashIn), moves), NoTemp)

Call_get_fen_position ==
    /\ pc = "idle"
    /\ Ends("get_fen_position", <<>>, 0, GetFenPosition(Self(0)), NoTemp)

Call_is_move_correct(move_value) ==
    /\ pc = "idle"
    /\ Ends("is_move_correct", <<move_value>>, 0, IsMoveCorrect(Self(0), move_value), NoTemp)

Call_get_top_moves(num_top_moves, verbose, nodes, crashIn) ==
    /\ pc = "idle"
    /\ Ends("get_top_moves", <<num_top_moves, verbose, nodes>>, crashIn,
            GetTopMoves(Self(crashIn), num_top_moves, verbose, nodes), NoTemp)

Call_set_num_nodes(nodes) ==
    /\ pc = "idle"
    /\ Ends("set_num_nodes", <<nodes>>, 0, Return(SetNumNodes(Self(0), IntV(nodes)), NoneV), NoTemp)

Call_set_turn_perspective(turn) ==
    /\ pc = "idle"
    /\ Ends("set_turn_perspective", <<turn>>, 0,
            Return(SetTurnPerspective(Self(0), BoolV(turn)), NoneV), NoTemp)

EndsWithTemp(op, args, crashIn, r) == Ends(op, args, crashIn, r.s, TempOf(r))

\* is_fen_valid.  Its disposable session is an object of the same class: the
\* __del__ of the finally clause counts, and so does the __del__ Python runs
\* when the object is released, which is at the return of is_fen_valid (the
\* tests expect 2), or, when is_fen_valid raises, whenever the caller lets go
\* of the exception: by the time the caller looks, or later.
ImplicitDels(r) ==
    IF ~r.created THEN {0}
    ELSE IF r.torn /\ Ok(r.s) THEN {1}
    ELSE {0, 1}

CountedOnTemp(r, released) == [r EXCEPT !.s.dels = @ + r.t.dels + released]

FenValidEnds(fen, crashIn, r) ==
    \E released \in ImplicitDels(r) :
        EndsWithTemp("is_fen_valid", <<fen>>, crashIn, CountedOnTemp(r, released))

Call_is_fen_valid(fen, crashIn) ==
    /\ pc = "idle"
    /\ FenValidEnds(fen, crashIn, IsFenValid(Self(0), fen, crashIn))

Call_send_quit_command ==
    /\ pc = "idle"
    /\ Ends("send_quit_command", <<>>, 0, Return(SendQuitCommand(Self(0)), NoneV), NoTemp)

Call_del ==
    /\ pc = "idle"
    /\ Ends("__del__", <<>>, 0, Return(Del(Self(0)), NoneV), NoTemp)

\* self._put(command), called directly
Call_put(command) ==
    /\ pc = "idle"
    /\ Ends("_put", <<command>>, 0, Return(Put(Self(0), command), NoneV), NoTemp)

\* the caller has seen how the call ended, and may make the next
Resume ==
    /\ pc = "returned"
    /\ pc' = "idle"
    /\ lastOp' = NoOp
    /\ trace' = <<>>
    /\ temp_sf' = NoTemp
    /\ missed' = {}
    /\ UNCHANGED <<parameters, depth, num_nodes, turn_perspective, info,
                   has_quit_command_been_sent, version, alive, epos, eopts, out, engine,
                   barrier, quitWrites, teardowns>>

\* the engine process dies between two calls
EngineCrash ==
    /\ pc = "idle"
    /\ alive
    /\ alive' = FALSE
    /\ UNCHANGED <<parameters, depth, num_nodes, turn_perspective, info,
                   has_quit_command_been_sent, version, epos, eopts, out, engine,
                   pc, lastOp, trace, temp_sf, barrier, missed, quitWrites, teardowns>>

\* the engine process, which was sent quit, exits
EngineExit ==
    /\ pc = "idle"
    /\ alive
    /\ has_quit_command_been_sent
    /\ alive' = FALSE
    /\ UNCHANGED <<parameters, depth, num_nodes, turn_perspective, info,
                   has_quit_command_been_sent, version, epos, eopts, out, engine,
                   pc, lastOp, trace, temp_sf, barrier, missed, quitWrites, teardowns>>

(***************************************************************************)
(* The inputs.                                                             *)
(***************************************************************************)
\* the longest move list and the largest batch a call is given
MaxMoves == 2

MaxBatch == 2

\* the last channel access of a call at which the engine is let die, in Spec
MaxCrashPoint == 8

\* and in a disposable session, whose life has 142 channel accesses
MaxCrashStep == 143

\* the largest of the small numbers of top moves asked for
MaxTop == 3

RECURSIVE SeqsUpTo(_, _)
SeqsUpTo(S, n) ==
    IF n = 0 THEN {<<>>}
    ELSE LET shorter == SeqsUpTo(S, n - 1) IN
         shorter \cup {Append(q, x) : q \in shorter, x \in S}

\* move texts: legal somewhere, legal nowhere, and not a move at all
Moves == {"e2e4", "e7e5", "h1h2", "word"}

MoveLists == SeqsUpTo(Moves, MaxMoves)

\* batch entries the registry accepts
GoodEntries ==
    { <<"Skill Level", IntV(10)>>, <<"UCI_Elo", IntV(2000)>>,
      <<"UCI_LimitStrength", BoolV(TRUE)>>, <<"UCI_LimitStrength", BoolV(FALSE)>>,
      <<"Threads", IntV(2)>>, <<"Hash", IntV(32)>> }

\* batch entries it rejects: not registered, of the wrong kind (a bool for an
\* int, an int for a bool), out of range
BadEntries ==
    { <<"Not key", IntV(0)>>, <<"Threads", BoolV(TRUE)>>, <<"Ponder", IntV(1)>>,
      <<"Hash", IntV(4096)>> }

\* a dict has each key once
IsDict(d) == \A i, j \in DOMAIN d : d[i][1] = d[j][1] => i = j

Batches == {b \in SeqsUpTo(GoodEntries \cup BadEntries, MaxBatch) : IsDict(b)}

(***************************************************************************)
(* Spec: a caller using the whole interface, on few inputs.                *)
(***************************************************************************)
Next ==
    \/ \E batch \in { <<>>, << <<"Threads", IntV(2)>> >>, << <<"Skill Level", IntV(10)>> >>,
                      << <<"Not key", IntV(0)>> >> }, crashIn \in 0 .. MaxCrashPoint :
          Call_update_engine_parameters(batch, crashIn)
    \/ \E send_ucinewgame_token \in BOOLEAN : Call_set_fen_position(E4Fen, send_ucinewgame_token)
    \/ \E moves \in { <<"e2e4">>, <<"e2e4", "e7e5">>, <<"word">> } :
          Call_make_moves_from_current_position(moves, 0)
    \/ Call_get_fen_position
    \/ Call_is_move_correct("e2e4")
    \/ Call_get_top_moves(2, FALSE, 0, 0)
    \/ Call_is_fen_valid(StartFen, 0)
    \/ Call_send_quit_command
    \/ Call_del
    \/ \E command \in { <<"quit">>, <<"ucinewgame">> } : Call_put(command)
    \/ Resume
    \/ EngineCrash
    \/ EngineExit

Spec == Init /\ [][Next]_vars

TypeOK ==
    /\ pc \in {"idle", "returned", "hung"}
    /\ alive \in BOOLEAN
    /\ has_quit_command_been_sent \in BOOLEAN
    /\ quitWrites \in Nat
    /\ Len(barrier) <= 2

(***************************************************************************)
(* SpecMoves: a caller placing positions and replaying move lists.         *)
(***************************************************************************)
NextMoves ==
    \/ \E fen \in {StartFen, OneMoveFen}, send_ucinewgame_token \in BOOLEAN :
          Call_set_fen_position(fen, send_ucinewgame_token)
    \/ \E moves \in MoveLists : Call_make_moves_from_current_position(moves, 0)
    \/ \E moves \in MoveLists : Call_set_position(moves)
    \/ \E move_value \in Moves : Call_is_move_correct(move_value)
    \/ Call_get_fen_position
    \/ Resume

SpecMoves == Init /\ [][NextMoves]_vars

(***************************************************************************)
(* The barrier.                                                            *)
(***************************************************************************)
\* C1, as stated: every setoption and every position the session writes is
\* followed by an isready whose readyok is read before the session writes any
\* further command.
C1_BarrierAfterEach == missed = {}

\* the isready/readyok exchange has been made in events before its i-th entry
BarrierBefore(events, i) ==
    \E j, k \in 1 .. (i - 1) :
        j < k /\ IsSend(events[j], {"isready"}) /\ events[k] = <<"recv", <<"readyok">>>>

\* C1, amended: every setoption the session writes is followed by an isready
\* whose readyok is read before the session writes any further command; a
\* position is written after the isready/readyok exchange of its call, which
\* precedes it (no exchange is required after it).
C1_BarrierAfterSetoption ==
    /\ "setoption" \notin missed
    /\ \A i \in DOMAIN trace : IsSend(trace[i], {"position"}) => BarrierBefore(trace, i)

\* C1: a call has written a setoption, had its readyok, and has written its
\* next command straight after a position
C1_Witness ==
    /\ lastOp.op = "get_top_moves"
    /\ lastOp.err = "none"
    /\ \E i \in DOMAIN trace : IsSend(trace[i], {"setoption"})
    /\ missed = {"position"}

(***************************************************************************)
(* make_moves_from_current_position.                                       *)
(***************************************************************************)
\* the index of the first move of the list that the engine rejects when the
\* list is played from fen, or 0
RECURSIVE FirstRejected(_, _, _)
FirstRejected(fen, moves, i) ==
    IF i > Len(moves) THEN 0
    ELSE IF ~EngineLegal(fen, moves[i]) THEN i
    ELSE FirstRejected(EngineResult(fen, moves[i]), moves, i + 1)

\* C2, as stated: a move list with a rejected move, at whatever index, makes
\* make_moves_from_current_position raise a caller-input error naming that
\* move and leaves the engine's FEN as it was before the call; the empty list
\* leaves the FEN as it was.
C2_AllOrNothing ==
    [][(alive /\ ~has_quit_command_been_sent
        /\ lastOp'.op = "make_moves_from_current_position")
       => /\ lastOp'.args[1] = <<>> => epos' = epos /\ lastOp'.err = "none"
          /\ FirstRejected(epos, lastOp'.args[1], 1) # 0
             => /\ lastOp'.err = "ValueError"
                /\ lastOp'.ret = <<"Cannot make move:",
                                   lastOp'.args[1][FirstRejected(epos, lastOp'.args[1], 1)]>>
                /\ epos' = epos]_vars

(***************************************************************************)
(* SpecTop: a caller asking for top moves, on positions with many moves,   *)
(* one move and none, under its own MultiPV, node budget and perspective.  *)
(***************************************************************************)
\* numbers of top moves asked for: 0 and 501 are outside the accepted 1..500
TopCounts == (0 .. MaxTop) \cup {500, 501}

\* the num_nodes argument: 0 is "search by depth"
NodeOverrides == {0, 5, 30}

NextTop ==
    \/ \E num_top_moves \in TopCounts, verbose \in BOOLEAN, nodes \in NodeOverrides :
          Call_get_top_moves(num_top_moves, verbose, nodes, 0)
    \/ \E fen \in {E4Fen, OneMoveFen, MateFen} : Call_set_fen_position(fen, TRUE)
    \/ \E batch \in { << <<"MultiPV", IntV(3)>> >>, << <<"Skill Level", IntV(10)>> >> } :
          Call_update_engine_parameters(batch, 0)
    \/ Call_set_num_nodes(7)
    \/ \E turn \in BOOLEAN : Call_set_turn_perspective(turn)
    \/ Resume

SpecTop == Init /\ [][NextTop]_vars

\* C3: for num_top_moves in 1..500 and any num_nodes override, when
\* get_top_moves returns, the in-memory MultiPV, the MultiPV value last sent
\* to the engine and the node budget are what they were before the call,
\* also when the position has fewer moves than asked for, or none.
C3_TopMovesRestores ==
    [][(lastOp'.op = "get_top_moves" /\ lastOp'.err = "none" /\ lastOp'.args[1] \in 1 .. 500)
       => /\ parameters'["MultiPV"] = parameters["MultiPV"]
          /\ eopts'["MultiPV"] = eopts["MultiPV"]
          /\ num_nodes' = num_nodes]_vars

\* C3: get_top_moves has returned one move, having been asked for more under
\* a node override, and having sent the engine another MultiPV on the way
C3_Witness ==
    /\ lastOp.op = "get_top_moves"
    /\ lastOp.err = "none"
    /\ lastOp.args[1] = 500
    /\ lastOp.args[3] = 30
    /\ Len(lastOp.ret) = 1
    /\ \E i \in DOMAIN trace : trace[i] = <<"send", <<"setoption", "name", "MultiPV", "value", "500">>>>
    /\ parameters["MultiPV"] = IntV(3)
    /\ num_nodes = 7

(***************************************************************************)
(* SpecFen: a caller validating FENs, the engine of the disposable session *)
(* dying at any of its channel accesses, or not at all.                    *)
(***************************************************************************)
FenInputs == {StartFen, OneMoveFen, MateFen, KingAttackedFen, BadSyntaxFen}

NextFen ==
    \/ \E fen \in FenInputs, crashIn \in 0 .. MaxCrashStep : Call_is_fen_valid(fen, crashIn)
    \/ Call_set_fen_position(E4Fen, TRUE)
    \/ Resume

SpecFen == Init /\ [][NextFen]_vars

\* is_fen_valid has returned or raised
FenChecked == pc = "returned" /\ lastOp.op = "is_fen_valid"

\* C4, as stated: when is_fen_valid returns or raises, the disposable session
\* it created has been sent quit and has exited, on every exit path.
C4_QuitSentAndExited == (FenChecked /\ temp_sf.created) => (temp_sf.quit /\ ~temp_sf.alive)

\* C4, amended: when is_fen_valid returns or raises, the process of the
\* disposable session it created has exited, on every exit path; it was sent
\* quit on the paths on which the engine did not die on its own (a dead
\* engine is sent nothing).
C4_Exited ==
    (FenChecked /\ temp_sf.created)
    => /\ ~temp_sf.alive
       /\ (lastOp.crashIn = 0 /\ ~EngineDiesSearching(lastOp.args[1])) => (temp_sf.quit /\ temp_sf.torn)
       /\ temp_sf.quit => temp_sf.torn

\* C4: is_fen_valid has raised, the engine of its disposable session having
\* died while the session was being positioned at the FEN
C4_Witness ==
    /\ FenChecked
    /\ temp_sf.created
    /\ ~temp_sf.torn
    /\ lastOp.err = "StockfishException"
    /\ lastOp.crashIn = 135

(***************************************************************************)
(* SpecParams: a caller changing engine parameters, in batches of good and *)
(* bad entries in any order, on the start position and on another.         *)
(***************************************************************************)
NextParams ==
    \/ \E batch \in Batches : Call_update_engine_parameters(batch, 0)
    \/ Call_set_skill_level(IntV(10))
    \/ Call_set_elo_rating(IntV(2000))
    \/ Call_resume_full_strength
    \/ Call_reset_engine_parameters
    \/ \E send_ucinewgame_token \in BOOLEAN : Call_set_fen_position(E4Fen, send_ucinewgame_token)
    \/ Resume

SpecParams == InitOn([build |-> "16", hasWdl |-> TRUE]) /\ [][NextParams]_vars

\* update_engine_parameters has ended; Updated: it has returned, from a batch
\* that was not empty
UpdateEnded == lastOp.op = "update_engine_parameters"

Updated == UpdateEnded /\ lastOp.err = "none" /\ lastOp.args[1] # <<>>

\* the text the engine is sent for a value
Text(value) == IF value.kind = "bool" THEN (IF value.n = 1 THEN "true" ELSE "false")
               ELSE IntToStr(value.n)

\* C5: a batch with Skill Level and neither UCI_Elo nor UCI_LimitStrength
\* ends with UCI_LimitStrength false; one with UCI_Elo and neither Skill Level
\* nor UCI_LimitStrength ends with it true; one that supplies UCI_LimitStrength
\* ends with the value supplied; one with Skill Level and UCI_Elo and no flag
\* leaves the flag as it was.  (The flag in self._parameters, and at the engine.)
C5_StrengthCoupling ==
    [][Updated' =>
        LET keys == DictKeys(lastOp'.args[1])
            flag == parameters'["UCI_LimitStrength"]
            sent == eopts'["UCI_LimitStrength"]
        IN  /\ ("Skill Level" \in keys /\ "UCI_Elo" \notin keys /\ "UCI_LimitStrength" \notin keys)
               => (flag = BoolV(FALSE) /\ sent = "false")
            /\ ("UCI_Elo" \in keys /\ "Skill Level" \notin keys /\ "UCI_LimitStrength" \notin keys)
               => (flag = BoolV(TRUE) /\ sent = "true")
            /\ "UCI_LimitStrength" \in keys
               => /\ flag = DictGet(lastOp'.args[1], "UCI_LimitStrength")
                  /\ sent = Text(DictGet(lastOp'.args[1], "UCI_LimitStrength"))
            /\ ("Skill Level" \in keys /\ "UCI_Elo" \in keys /\ "UCI_LimitStrength" \notin keys)
               => (flag = parameters["UCI_LimitStrength"] /\ sent = eopts["UCI_LimitStrength"])
      ]_vars

\* C5: a batch with Skill Level and UCI_Elo and no flag has been applied to a
\* session whose flag was true
C5_Witness ==
    /\ Updated
    /\ {"Skill Level", "UCI_Elo"} \subseteq DictKeys(lastOp.args[1])
    /\ "UCI_LimitStrength" \notin DictKeys(lastOp.args[1])
    /\ parameters["UCI_LimitStrength"] = BoolV(TRUE)
    /\ parameters["Skill Level"] = IntV(10)

\* a batch entry is bad: its name is not registered, its value is of another
\* kind than the registered one, or out of the registered range
BadEntry(e) ==
    \/ e[1] \notin DOMAIN PARAM_RESTRICTIONS
    \/ e[2].kind # PARAM_RESTRICTIONS[e[1]].type
    \/ PARAM_RESTRICTIONS[e[1]].hasMin /\ e[2].n < PARAM_RESTRICTIONS[e[1]].minimum
    \/ PARAM_RESTRICTIONS[e[1]].hasMax /\ e[2].n > PARAM_RESTRICTIONS[e[1]].maximum

\* C6: a batch with a bad entry, wherever in the batch it is, makes
\* update_engine_parameters raise a caller-input error before any command is
\* sent, and parameters, depth, node budget, info and the engine's position
\* (and the options it holds) are unchanged.
C6_BadBatchRejected ==
    [][(UpdateEnded' /\ \E i \in DOMAIN lastOp'.args[1] : BadEntry(lastOp'.args[1][i]))
       => /\ lastOp'.err = "ValueError"
          /\ trace' = <<>>
          /\ parameters' = parameters
          /\ depth' = depth
          /\ num_nodes' = num_nodes
          /\ info' = info
          /\ epos' = epos
          /\ eopts' = eopts]_vars

\* C6: a batch whose first entry is good and whose last is bad has been rejected
C6_Witness ==
    /\ UpdateEnded
    /\ lastOp.err = "ValueError"
    /\ Len(lastOp.args[1]) = 2
    /\ ~BadEntry(lastOp.args[1][1])
    /\ BadEntry(lastOp.args[1][2])
    /\ lastOp.args[1][2][2].kind = "bool"
    /\ epos = E4Fen

\* the places in events where the option `name` is sent
SetoptionsOf(events, name) ==
    {i \in DOMAIN events : IsSend(events[i], {"setoption"}) /\ events[i][2][3] = name}

\* C7: a batch with Threads has its Threads setoption sent before its Hash
\* setoption, whatever the order of its keys, and no Hash setoption before the
\* Threads one; Hash is sent with the value supplied, or else its current one.
C7_ThreadsBeforeHash ==
    [][(UpdateEnded' /\ "Threads" \in DictKeys(lastOp'.args[1]))
       => /\ \A h \in SetoptionsOf(trace', "Hash") :
                \E i \in SetoptionsOf(trace', "Threads") : i < h
          /\ lastOp'.err = "none"
             => \E i \in SetoptionsOf(trace', "Threads"), h \in SetoptionsOf(trace', "Hash") :
                   /\ i < h
                   /\ trace'[h][2][5] =
                         Text(IF "Hash" \in DictKeys(lastOp'.args[1])
                              THEN DictGet(lastOp'.args[1], "Hash")
                              ELSE parameters["Hash"])]_vars

\* C7: a batch that names Hash before Threads has been applied
C7_Witness ==
    /\ Updated
    /\ Len(lastOp.args[1]) = 2
    /\ lastOp.args[1][1][1] = "Hash"
    /\ lastOp.args[1][2][1] = "Threads"
    /\ SetoptionsOf(trace, "Hash") # {}

\* C8: update_engine_parameters, on a batch that is valid and not empty, writes
\* `position fen F` after its last setoption, F being the FEN the engine
\* reports then, and no ucinewgame; the engine's position after the call is the
\* one before it.
C8_PositionResent ==
    [][Updated' =>
        LET sends == Sent(trace') IN
        /\ sends # <<>>
        /\ sends[Len(sends)] = <<"send", <<"position", "fen">> \o epos>>
        /\ \A i \in DOMAIN sends : ~IsSend(sends[i], {"ucinewgame"})
        /\ \E i \in DOMAIN sends : IsSend(sends[i], {"setoption"})
        /\ \A i \in DOMAIN sends : IsSend(sends[i], {"position"}) => i = Len(sends)
        /\ epos' = epos]_vars

\* C8: a batch has been applied on a position that is not the start position
C8_Witness ==
    /\ Updated
    /\ epos = E4Fen
    /\ trace[Len(trace)] = <<"send", <<"position", "fen">> \o E4Fen>>
    /\ SetoptionsOf(trace, "Threads") # {}

(***************************************************************************)
(* Quit and teardown.                                                      *)
(***************************************************************************)
\* C9: once quit has been written to the channel, no operation of the session
\* writes a command to it: a later send is dropped without an error, and the
\* quit-sent flag stays true.
C9_NothingAfterQuit ==
    [][/\ quitWrites > 0
          => /\ has_quit_command_been_sent
             /\ has_quit_command_been_sent'
             /\ Sent(trace') = <<>>
             /\ lastOp'.op = "_put" => lastOp'.err = "none"
       /\ \A i \in DOMAIN trace' :
             IsSend(trace'[i], {"quit"}) => \A j \in DOMAIN trace' : j > i => trace'[j][1] # "send"
      ]_vars

\* C9: a command has been sent directly after quit, the engine process still
\* running, and was dropped
C9_Witness ==
    /\ lastOp.op = "_put"
    /\ lastOp.args[1] = <<"ucinewgame">>
    /\ lastOp.err = "none"
    /\ trace = <<>>
    /\ quitWrites = 1
    /\ alive

\* a teardown call has ended
TeardownEnded == lastOp.op \in {"send_quit_command", "__del__"}

\* C10: over any sequence of calls, quit is written to the channel at most
\* once, and a teardown call (send_quit_command, __del__) after the first
\* returns without raising, and leaves the process and the flag as they were.
C10_TeardownOnce ==
    [][/\ quitWrites' <= 1
       /\ (teardowns > 0 /\ TeardownEnded')
          => /\ lastOp'.err = "none"
             /\ pc' = "returned"
             /\ trace' = <<>>
             /\ alive' = alive
             /\ has_quit_command_been_sent' = has_quit_command_been_sent]_vars

\* C10: a second teardown call has returned, on a session that was sent quit
C10_Witness ==
    /\ TeardownEnded
    /\ lastOp.op = "__del__"
    /\ teardowns = 2
    /\ quitWrites = 1

(***************************************************************************)
(* SpecQuit: the teardown seen step by step.  send_quit_command polls the  *)
(* process, writes quit if it runs, and then polls again and again until   *)
(* the process has exited; the engine, a process of its own, exits at some *)
(* moment after it has read quit.  pc = "waiting": the call is in its      *)
(* `while self._stockfish.poll() is None: pass`.                           *)
(***************************************************************************)
\* send_quit_command that polls and never writes quit
PutQuitIfRunning_unsent(s) == s

\* `if self._stockfish.poll() is None: self._put("quit")`
PutQuitIfRunning(s) == IF s.alive THEN Put(s, <<"quit">>) ELSE s

\* poll() has returned None: the process runs
PollNone == <<"poll", <<"None">>>>

\* the teardown `op` has found the process running, and enters its loop
EntersLoop(op, r) ==
    /\ parameters' = r.parameters
    /\ depth' = r.depth
    /\ num_nodes' = r.num_nodes
    /\ turn_perspective' = r.turn_perspective
    /\ info' = r.info
    /\ has_quit_command_been_sent' = r.quit
    /\ version' = r.version
    /\ alive' = r.alive
    /\ epos' = r.epos
    /\ eopts' = r.eopts
    /\ out' = r.out
    /\ engine' = engine
    /\ pc' = "waiting"
    /\ lastOp' = [op |-> op, args |-> <<>>, crashIn |-> 0, err |-> r.err, ret |-> r.ret,
                  warned |-> r.warned, dels |-> r.dels]
    /\ trace' = <<PollNone>> \o r.trace
    /\ temp_sf' = NoTemp
    /\ barrier' = StillOpen(barrier \o r.trace)
    /\ missed' = MissedKinds(barrier \o r.trace)
    /\ quitWrites' = quitWrites + QuitCount(r.trace)
    /\ teardowns' = teardowns

\* __del__ counts itself before it calls send_quit_command
Entering(op) == IF op = "__del__" THEN DelCount(Self(0)) ELSE Self(0)

\* send_quit_command, or __del__, up to its loop; with the process already
\* gone it returns at once
Begin_teardown(op) ==
    /\ pc = "idle"
    /\ IF alive
       THEN EntersLoop(op, PutQuitIfRunning(Entering(op)))
       ELSE Ends(op, <<>>, 0, PutQuitIfRunning(Entering(op)), NoTemp)

\* the loop polls, finds the process gone, and the call returns
Poll_teardown ==
    /\ pc = "waiting"
    /\ ~alive
    /\ pc' = "returned"
    /\ teardowns' = Min(teardowns + 1, MaxTeardowns)
    /\ UNCHANGED <<parameters, depth, num_nodes, turn_perspective, info,
                   has_quit_command_been_sent, version, alive, epos, eopts, out, engine,
                   lastOp, trace, temp_sf, barrier, missed, quitWrites>>

\* the engine process, which was sent quit, exits while the session waits
EngineExits ==
    /\ pc = "waiting"
    /\ alive
    /\ has_quit_command_been_sent
    /\ alive' = FALSE
    /\ UNCHANGED <<parameters, depth, num_nodes, turn_perspective, info,
                   has_quit_command_been_sent, version, epos, eopts, out, engine,
                   pc, lastOp, trace, temp_sf, barrier, missed, quitWrites, teardowns>>

NextQuit ==
    \/ \E op \in {"send_quit_command", "__del__"} : Begin_teardown(op)
    \/ Poll_teardown
    \/ EngineExits
    \/ EngineExit
    \/ \E command \in {<<"quit">>, <<"ucinewgame">>} : Call_put(command)
    \/ \E send_ucinewgame_token \in BOOLEAN : Call_set_fen_position(E4Fen, send_ucinewgame_token)
    \/ \E moves \in {<<"e2e4">>, <<"e7e5">>} : Call_make_moves_from_current_position(moves, 0)
    \/ Call_get_fen_position
    \/ Resume

\* The loop goes on polling, and an engine that has read quit exits.
SpecQuit == Init /\ [][NextQuit]_vars /\ WF_vars(Poll_teardown) /\ WF_vars(EngineExits)

\* C11: send_quit_command and __del__ return only once the engine process has
\* exited, and, the engine exiting after it has read quit, they do return:
\* a teardown that has returned finds the process not alive, and a teardown
\* that waits for the exit, quit having been written by it or by an earlier
\* direct send, leads to its return with the process not alive.
C11_ReturnsOnceExited ==
    /\ []((pc = "returned" /\ TeardownEnded) => ~alive)
    /\ (pc = "waiting") ~> (pc = "returned" /\ TeardownEnded /\ ~alive)

\* C11: send_quit_command has returned after waiting for a process that ran
\* when it was called and that had been sent quit by an earlier direct send
C11_Witness ==
    /\ pc = "returned"
    /\ lastOp.op = "send_quit_command"
    /\ trace = <<PollNone>>
    /\ quitWrites = 1
    /\ has_quit_command_been_sent
    /\ ~alive

\* C12: at most one command is outstanding: whenever the session writes a
\* command that the engine answers with output, no output of an earlier
\* command is still unread; during construction as in every later call.
C12_OneOutstanding == \A i \in DOMAIN trace : trace[i][1] # "undrained"

(***************************************************************************)
(* The queries on the position: the best move, the board, the static       *)
(* evaluation, perft, the evaluation and the WDL statistics.               *)
(***************************************************************************)
\* Stockfish._go_remaining_time: the command it writes
GoRemainingTime(wtime, btime) ==
    <<"go">> \o (IF wtime.none THEN <<>> ELSE <<"wtime", IntToStr(wtime.n)>>)
             \o (IF btime.none THEN <<>> ELSE <<"btime", IntToStr(btime.n)>>)

\* Stockfish.get_best_move
GetBestMove(s, wtime, btime) ==
    GetBestMoveFromSfPopenProcess(
        IF ~wtime.none \/ ~btime.none THEN Put(s, GoRemainingTime(wtime, btime))
        ELSE Put(s, <<"go", "depth", IntToStr(s.depth)>>))

\* Stockfish.get_best_move_time
GetBestMoveTime(s, time) ==
    GetBestMoveFromSfPopenProcess(Put(s, <<"go", "movetime", IntToStr(time)>>))

\* seq[::-1]
Reverse(seq) == [i \in 1 .. Len(seq) |-> seq[Len(seq) + 1 - i]]

\* `"+" in board_str or "|" in board_str`
IsGridLine(l) == \E i \in DOMAIN l : l[i] \in {"+---+---+---+---+---+---+---+---+", "|"}

\* get_board_visual, were the whole line mirrored, the rank number with it
Mirrored_whole(l) == Reverse(l)

\* board_part[::-1] + number_part: the 33 characters of the board (the bars
\* and squares of a rank line) mirrored, what follows them kept at the right;
\* the border line reads the same mirrored
Mirrored(l) == IF l[1] = "|" THEN Reverse(SubSeq(l, 1, 17)) \o SubSeq(l, 18, Len(l)) ELSE l

\* `"a   b   c" in board_str`
HasLegend(l) == \E i \in 1 .. (Len(l) - 2) : l[i] = "a" /\ l[i + 1] = "b" /\ l[i + 2] = "c"

\* Stockfish.get_board_visual.  BoardRow: the loop's body on the line just
\* read; WithLegend: from the line read after the 17 grid lines on.
RECURSIVE BoardRows(_, _, _)
BoardRow(s, rows, perspective_white) ==
    IF ~Ok(s) THEN s
    ELSE IF ~IsGridLine(s.line) THEN BoardRows(s, rows, perspective_white)
    ELSE IF Len(rows) + 1 < 17
    THEN BoardRows(s, Append(rows, IF perspective_white THEN s.line ELSE Mirrored(s.line)),
                   perspective_white)
    ELSE Return(s, IF perspective_white THEN Append(rows, s.line)
                   ELSE Reverse(Append(rows, Mirrored(s.line))))

BoardRows(s, rows, perspective_white) == BoardRow(ReadLine(s), rows, perspective_white)

WithLegend(s, rows, perspective_white) ==
    IF ~Ok(s) THEN s
    ELSE Ret(DiscardRemainingStdoutLines(s, "Checkers"),
             IF HasLegend(s.line)
             THEN Append(rows, IF perspective_white THEN s.line ELSE Reverse(s.line))
             ELSE rows)

BoardLegend(s, perspective_white) ==
    IF ~Ok(s) THEN s ELSE WithLegend(ReadLine(s), s.ret, perspective_white)

GetBoardVisual(s, perspective_white) ==
    BoardLegend(BoardRows(Put(s, <<"d">>), <<>>, perspective_white), perspective_white)

\* get_evaluation, were the engine's value always taken as it is
CompareOfFen_kept(s) == IF Ok(s) THEN Return(s, 1) ELSE s

\* `1 if ... ("w" in self.get_fen_position()) else -1`, the FEN being in ret
CompareOfFen(s) == IF Ok(s) THEN Return(s, IF HasW(s.ret) THEN 1 ELSE -1) ELSE s

\* float(token), for the evaluations the engine prints here
EvalPool == {StaticEval(f) : f \in {StartFen, E4Fen, E4E5Fen, OneMoveFen, AfterH2Fen, KingAttackedFen}}

ParseFloat(t) == IF \E n \in EvalPool : FloatText(n) = t
                 THEN CHOOSE n \in EvalPool : FloatText(n) = t
                 ELSE 0

\* text.startswith("Final evaluation") or text.startswith("Total Evaluation")
IsFinalEvaluation(l) ==
    /\ Len(l) >= 2
    /\ \/ l[1] = "Final" /\ l[2] \in {"evaluation", "evaluation:"}
       \/ l[1] = "Total" /\ l[2] \in {"Evaluation", "Evaluation:"}

\* `" none " in text`
HasNoneInside(l) == \E i \in 2 .. (Len(l) - 1) : l[i] = "none"

\* Stockfish.get_static_eval.  StaticEvalCompare: `compare`; EvalLine: the
\* loop's body on the line just read; StaticEvalOf: from `if static_eval ==
\* "none"` on, l being the evaluation line.
StaticEvalCompare(s) ==
    IF ~Ok(s) THEN s
    ELSE IF ~s.turn_perspective THEN Return(s, 1)
    ELSE CompareOfFen(GetFenPosition(s))

StaticEvalOf(s, l, compare) ==
    IF ~Ok(s) THEN s
    ELSE IF l[3] # "none" THEN Return(s, FloatV(ParseFloat(l[3]) * compare))
    ELSE IF HasToken(l, "(in") /\ HasToken(l, "check)") THEN Return(s, NoneV)
    ELSE Raise(s, "AssertionError")

RECURSIVE EvalLines(_, _)
EvalLine(s, compare) ==
    IF ~Ok(s) THEN s
    ELSE IF ~IsFinalEvaluation(s.line) THEN EvalLines(s, compare)
    ELSE IF Len(s.line) < 3 THEN Raise(s, "IndexError")
    ELSE StaticEvalOf(IF ~HasNoneInside(s.line) THEN ReadLine(s) ELSE s, s.line, compare)

EvalLines(s, compare) == EvalLine(ReadLine(s), compare)

EvalFrom(s) == IF ~Ok(s) THEN s ELSE EvalLines(Put(s, <<"eval">>), s.ret)

GetStaticEval(s) == EvalFrom(StaticEvalCompare(s))

\* Stockfish.get_perft.  A line `move: count` is the tokens move, ":", count.
\* PerftLine: the loop's body on the line just read, and the read after it.
RECURSIVE PerftLines(_, _)
PerftLine(s, move_possibilities) ==
    IF ~Ok(s) THEN s
    ELSE IF s.line = <<>> THEN PerftLines(s, move_possibilities)
    ELSE IF SubstrIn("searched", s.line)
    THEN Ret(ReadLine(s), <<ParseInt(s.line[Len(s.line)]), move_possibilities>>)
    ELSE IF Len(s.line) # 3 \/ s.line[2] # ":" THEN Raise(s, "ValueError")
    ELSE IF s.line[1] \in DictKeys(move_possibilities) THEN Raise(s, "AssertionError")
    ELSE PerftLines(s, Append(move_possibilities, <<s.line[1], ParseInt(s.line[3])>>))

PerftLines(s, move_possibilities) == PerftLine(ReadLine(s), move_possibilities)

GetPerft(s, depth_value) ==
    IF ~Ok(s) THEN s
    ELSE IF depth_value.kind # "int" \/ depth_value.n < 1 THEN Raise(s, "TypeError")
    ELSE PerftLines(Put(s, <<"go", "perft", IntToStr(depth_value.n)>>), <<>>)

\* the lines among `lines` that pass a test, as their indices
InfoLines(lines) == {i \in DOMAIN lines : Len(lines[i]) > 0 /\ lines[i][1] = "info"}

MultiPV1Lines(lines) ==
    {i \in DOMAIN lines :
        \E j \in 2 .. (Len(lines[i]) - 2) : lines[i][j] = "multipv" /\ lines[i][j + 1] = "1"}

Last(indices) == CHOOSE i \in indices : \A j \in indices : j <= i

\* Stockfish.get_evaluation.  EvaluationCompare: `compare`; ScoreOf: from
\* `score_index = ...` on; EvaluationOf: from the lines of the search on.
EvaluationCompare(s) ==
    IF ~Ok(s) THEN s
    ELSE IF s.turn_perspective THEN Return(s, 1)
    ELSE CompareOfFen(GetFenPosition(s))

ScoreOf(s, split_line, compare) ==
    IF ~HasToken(split_line, "score") THEN Raise(s, "ValueError")
    ELSE Return(s, [type |-> Pick(split_line, "score", 1),
                    value |-> ParseInt(Pick(split_line, "score", 2)) * compare])

EvaluationOf(s, compare) ==
    IF ~Ok(s) THEN s
    ELSE IF InfoLines(s.ret) = {} THEN Raise(s, "IndexError")
    ELSE ScoreOf(s, s.ret[Last(InfoLines(s.ret))], compare)

EvaluationSearch(s, searchtime) ==
    IF ~Ok(s) THEN s
    ELSE EvaluationOf(GetSfGoCommandOutput(
                          IF searchtime.none THEN Put(s, <<"go", "depth", IntToStr(s.depth)>>)
                          ELSE Put(s, <<"go", "movetime", IntToStr(searchtime.n)>>)),
                      s.ret)

GetEvaluation(s, searchtime) == EvaluationSearch(EvaluationCompare(WarnIfWeaker(s)), searchtime)

\* Stockfish.get_wdl_stats.  WdlSearch: from the answer of the probe on;
\* WdlOf: from the lines of the search on; WdlOfLine: from `wdl_index` on.
WdlOfLine(s, split_line, get_as_tuple) ==
    IF ~HasToken(split_line, "wdl") THEN Raise(s, "ValueError")
    ELSE Return(s, [tuple |-> get_as_tuple,
                    stats |-> <<ParseInt(Pick(split_line, "wdl", 1)),
                                ParseInt(Pick(split_line, "wdl", 2)),
                                ParseInt(Pick(split_line, "wdl", 3))>>])

WdlOf(s, get_as_tuple) ==
    IF ~Ok(s) THEN s
    ELSE IF s.ret[Len(s.ret)][2] = "(none)" THEN Return(s, NoneV)
    ELSE IF MultiPV1Lines(s.ret) = {} THEN Raise(s, "IndexError")
    ELSE WdlOfLine(s, s.ret[Last(MultiPV1Lines(s.ret))], get_as_tuple)

\* get_wdl_stats, were it to search whatever the probe answered
WdlSearch_unprobed(s, get_as_tuple) ==
    IF ~Ok(s) THEN s
    ELSE WdlOf(GetSfGoCommandOutput(Put(WarnIfWeaker(s), <<"go", "depth", IntToStr(s.depth)>>)),
               get_as_tuple)

WdlSearch(s, get_as_tuple) ==
    IF ~Ok(s) THEN s
    ELSE IF s.ret # TRUE THEN Raise(s, "RuntimeError")
    ELSE WdlOf(GetSfGoCommandOutput(Put(WarnIfWeaker(s), <<"go", "depth", IntToStr(s.depth)>>)),
               get_as_tuple)

GetWdlStats(s, get_as_tuple) == WdlSearch(DoesCurrentEngineVersionHaveWdlOption(s), get_as_tuple)

Call_get_best_move(wtime, btime, crashIn) ==
    /\ pc = "idle"
    /\ Ends("get_best_move", <<wtime, btime>>, crashIn,
            GetBestMove(Self(crashIn), wtime, btime), NoTemp)

Call_get_best_move_time(time) ==
    /\ pc = "idle"
    /\ Ends("get_best_move_time", <<time>>, 0, GetBestMoveTime(Self(0), time), NoTemp)

Call_get_board_visual(perspective_white) ==
    /\ pc = "idle"
    /\ Ends("get_board_visual", <<perspective_white>>, 0,
            GetBoardVisual(Self(0), perspective_white), NoTemp)

Call_get_static_eval ==
    /\ pc = "idle"
    /\ Ends("get_static_eval", <<>>, 0, GetStaticEval(Self(0)), NoTemp)

Call_get_perft(depth_value) ==
    /\ pc = "idle"
    /\ Ends("get_perft", <<depth_value>>, 0, GetPerft(Self(0), depth_value), NoTemp)

Call_get_evaluation(searchtime) ==
    /\ pc = "idle"
    /\ Ends("get_evaluation", <<searchtime>>, 0, GetEvaluation(Self(0), searchtime), NoTemp)

Call_get_wdl_stats(get_as_tuple) ==
    /\ pc = "idle"
    /\ Ends("get_wdl_stats", <<get_as_tuple>>, 0, GetWdlStats(Self(0), get_as_tuple), NoTemp)

Call_does_current_engine_version_have_wdl_option ==
    /\ pc = "idle"
    /\ Ends("does_current_engine_version_have_wdl_option", <<>>, 0,
            DoesCurrentEngineVersionHaveWdlOption(Self(0)), NoTemp)

(***************************************************************************)
(* SpecQuery: a caller placing positions and asking about them, on both    *)
(* builds, the engine dying at any channel access of a best-move search,   *)
(* or while it searches a position it cannot search, or not at all.        *)
(***************************************************************************)
\* the clock and time arguments: absent, or a second
Times == {NoInt, SomeInt(1000)}

NextQuery ==
    \/ \E wtime \in Times, btime \in Times : Call_get_best_move(wtime, btime, 0)
    \/ \E crashIn \in 1 .. MaxCrashPoint : Call_get_best_move(NoInt, NoInt, crashIn)
    \/ Call_get_best_move_time(1000)
    \/ \E perspective_white \in BOOLEAN : Call_get_board_visual(perspective_white)
    \/ Call_get_static_eval
    \/ \E depth_value \in {IntV(1), IntV(2), IntV(0), BoolV(TRUE)} : Call_get_perft(depth_value)
    \/ \E searchtime \in Times : Call_get_evaluation(searchtime)
    \/ \E get_as_tuple \in BOOLEAN : Call_get_wdl_stats(get_as_tuple)
    \/ Call_does_current_engine_version_have_wdl_option
    \/ Call_get_fen_position
    \/ \E verbose \in BOOLEAN : Call_get_top_moves(2, verbose, 0, 0)
    \/ \E move_value \in {"e2e4", "h1h2", "word"} : Call_is_move_correct(move_value)
    \/ \E fen \in {OneMoveFen, MateFen, KingAttackedFen}, send_ucinewgame_token \in BOOLEAN :
          Call_set_fen_position(fen, send_ucinewgame_token)
    \/ \E moves \in {<<>>, <<"e2e4">>, <<"e2e4", "e7e5">>} : Call_set_position(moves)
    \/ \E moves \in {<<"e2e4">>, <<"h1h2">>} : Call_make_moves_from_current_position(moves, 0)
    \/ \E turn \in BOOLEAN : Call_set_turn_perspective(turn)
    \/ Call_update_engine_parameters(<< <<"Skill Level", IntV(10)>> >>, 0)
    \/ Resume

SpecQuery == Init /\ [][NextQuery]_vars

\* the queries that read the engine's answer
Queries ==
    {"get_board_visual", "get_fen_position", "get_static_eval", "get_perft", "get_best_move",
     "get_best_move_time", "get_evaluation", "get_top_moves", "get_wdl_stats", "is_move_correct",
     "does_current_engine_version_have_wdl_option"}

\* C13: when a query returns, every line the engine printed for it has been
\* read: nothing is left for the read that follows the next command.
C13_QueriesDrain ==
    (pc = "returned" /\ lastOp.op \in Queries /\ lastOp.err = "none") => out = <<>>

\* C13: get_static_eval has returned a number, having read the evaluation
\* line and the blank line after it
C13_Witness ==
    /\ pc = "returned"
    /\ lastOp.op = "get_static_eval"
    /\ lastOp.err = "none"
    /\ lastOp.ret = FloatV(-35)
    /\ out = <<>>

(***************************************************************************)
(* SpecMirror: a caller changing engine parameters, as in SpecParams, and  *)
(* asking for the top moves, which overrides MultiPV for the search.       *)
(***************************************************************************)
NextMirror ==
    \/ NextParams
    \/ \E num_top_moves \in 0 .. MaxTop : Call_get_top_moves(num_top_moves, FALSE, 0, 0)
    \/ \E value \in BOOLEAN :
          Call_update_engine_parameters(<< <<"UCI_ShowWDL", BoolV(value)>> >>, 0)

SpecMirror == Init /\ [][NextMirror]_vars

\* C14: the in-memory parameters mirror the engine: after any sequence of
\* calls (update_engine_parameters, set_skill_level, set_elo_rating,
\* resume_full_strength, reset_engine_parameters, get_top_moves), whether
\* they returned or rejected their arguments, for every name in the in-memory
\* parameters the value last sent to the engine by setoption for that name
\* is the text of the in-memory value.
C14_ParametersMirrorEngine ==
    \A name \in DOMAIN parameters : eopts[name] = StrRepValue(parameters[name])

\* C14: get_top_moves has returned, having overridden and restored MultiPV, on
\* a session whose Skill Level and UCI_LimitStrength an earlier call changed
C14_Witness ==
    /\ pc = "returned"
    /\ lastOp.op = "get_top_moves"
    /\ lastOp.err = "none"
    /\ lastOp.args[1] = 3
    /\ parameters["Skill Level"] = IntV(10)
    /\ eopts["Skill Level"] = "10"
    /\ parameters["UCI_LimitStrength"] = BoolV(TRUE)
    /\ eopts["UCI_LimitStrength"] = "true"
    /\ eopts["MultiPV"] = "1"

\* C15: if the engine of the disposable session dies at any point after
\* is_fen_valid has accepted the syntax of the FEN, is_fen_valid returns
\* False and raises nothing to its caller.
C15_CrashIsInvalid ==
    (FenChecked /\ temp_sf.created /\ ~temp_sf.alive /\ ~temp_sf.quit)
    => (lastOp.err = "none" /\ lastOp.ret = FALSE)

(***************************************************************************)
(* SpecFrame: a caller validating FENs, as in SpecFen, on a session that   *)
(* has searched its own position.                                          *)
(***************************************************************************)
NextFrame ==
    \/ NextFen
    \/ Call_get_best_move(NoInt, NoInt, 0)
    \/ Call_update_engine_parameters(<< <<"Skill Level", IntV(10)>> >>, 0)

SpecFrame == Init /\ [][NextFrame]_vars

\* C16: is_fen_valid leaves the calling session as it was: its parameters,
\* depth, node budget, diagnostic text and engine position are unchanged,
\* nothing is written to its channel, and its process is still alive, whether
\* the FEN is valid, rejected by the syntax check, or kills the disposable
\* engine.
C16_CallerUnchanged ==
    [][lastOp'.op = "is_fen_valid"
       => /\ parameters' = parameters
          /\ depth' = depth
          /\ num_nodes' = num_nodes
          /\ info' = info
          /\ epos' = epos
          /\ eopts' = eopts
          /\ out' = out
          /\ trace' = <<>>
          /\ has_quit_command_been_sent' = has_quit_command_been_sent
          /\ alive' = alive]_vars

\* C16: is_fen_valid has returned True on a session that holds another
\* position, the diagnostic text of a search and a changed Skill Level
C16_Witness ==
    /\ FenChecked
    /\ lastOp.err = "none"
    /\ lastOp.ret = TRUE
    /\ temp_sf.torn
    /\ alive
    /\ info # <<>>
    /\ epos = E4Fen
    /\ parameters["Skill Level"] = IntV(10)

\* the bestmove line the engine prints for `go depth 1 searchmoves move`
BestMoveLine(fen, options, move_value) ==
    GoOutput(fen, options, <<"go", "depth", "1", "searchmoves", move_value>>)[
        Len(GoOutput(fen, options, <<"go", "depth", "1", "searchmoves", move_value>>))]

\* C17: is_move_correct leaves the diagnostic text as it was, whatever the
\* session and the move, although it runs a search; it returns True exactly
\* when the second token of the search's bestmove line is not (none).
C17_MoveCheckKeepsInfo ==
    [][lastOp'.op = "is_move_correct"
       => /\ info' = info
          /\ lastOp'.err = "none"
             => lastOp'.ret = (BestMoveLine(epos, eopts, lastOp'.args[1])[2] # "(none)")]_vars

\* C17: is_move_correct has returned False for a move that is not legal, on a
\* session that holds the diagnostic text of an earlier search
C17_Witness ==
    /\ pc = "returned"
    /\ lastOp.op = "is_move_correct"
    /\ lastOp.err = "none"
    /\ lastOp.ret = FALSE
    /\ lastOp.args = <<"e2e4">>
    /\ epos = E4Fen
    /\ info # <<>>
    /\ Len(trace) = 1

\* C18: after set_fen_position (with or without the new-game token),
\* set_position, or make_moves_from_current_position with a list of legal
\* moves that is not empty has returned, the diagnostic text is empty.
C18_NewPositionClearsInfo ==
    (/\ pc = "returned"
     /\ lastOp.err = "none"
     /\ \/ lastOp.op \in {"set_fen_position", "set_position"}
        \/ lastOp.op = "make_moves_from_current_position" /\ lastOp.args[1] # <<>>)
    => info = <<>>

\* C18: make_moves_from_current_position has played a move, which it first
\* checked by a search, and the diagnostic text is empty
C18_Witness ==
    /\ pc = "returned"
    /\ lastOp.op = "make_moves_from_current_position"
    /\ lastOp.err = "none"
    /\ lastOp.args = << <<"h1h2">> >>
    /\ epos = AfterH2Fen
    /\ \E i \in DOMAIN trace : trace[i] = <<"send", <<"go", "depth", "1", "searchmoves", "h1h2">>>>
    /\ info = <<>>

\* the calls that return the best move of a search
BestMoveCalls == {"get_best_move", "get_best_move_time"}

\* C19: get_best_move (by depth or by clocks) and get_best_move_time set the
\* diagnostic text to the line before the last of the search's output, and
\* return the second token of its last line, the bestmove line, or None
\* exactly when that token is (none).
C19_BestMoveAndInfo ==
    [][(lastOp'.op \in BestMoveCalls /\ lastOp'.err = "none")
       => /\ Len(trace') = 1
          /\ trace'[1][2][1] = "go"
          /\ info' = GoOutput(epos, eopts, trace'[1][2])[Len(GoOutput(epos, eopts, trace'[1][2])) - 1]
          /\ lastOp'.ret =
                IF GoOutput(epos, eopts, trace'[1][2])[Len(GoOutput(epos, eopts, trace'[1][2]))][2] = "(none)"
                THEN NoneV
                ELSE <<GoOutput(epos, eopts, trace'[1][2])[Len(GoOutput(epos, eopts, trace'[1][2]))][2]>>]_vars

\* C19: get_best_move, given clocks, has returned None on a checkmated
\* position, and the diagnostic text is the line that tells the mate
C19_Witness ==
    /\ pc = "returned"
    /\ lastOp.op = "get_best_move"
    /\ lastOp.err = "none"
    /\ lastOp.args = <<SomeInt(1000), SomeInt(1000)>>
    /\ trace = << <<"send", <<"go", "wtime", "1000", "btime", "1000">>>> >>
    /\ epos = MateFen
    /\ lastOp.ret = NoneV
    /\ info = <<"info", "depth", "0", "score", "mate", "0">>

\* the call reads the engine's answer: it is a query, and get_perft has been
\* given a depth it accepts
ReadsAnswer(call) ==
    /\ call.op \in Queries
    /\ call.op = "get_perft" => (call.args[1].kind = "int" /\ call.args[1].n >= 1)

\* C20: a read fails with StockfishException whenever the engine process has
\* exited at the time of the read: a query that ends with the process dead,
\* the process having died before the call or at any moment of its drain,
\* has raised StockfishException; it has not returned lines, nor hung.
C20_DeadEngineRaises ==
    [][(ReadsAnswer(lastOp') /\ ~alive')
       => (lastOp'.err = "StockfishException" /\ pc' = "returned")]_vars

\* C20: get_best_move has raised StockfishException, the engine having died
\* after the first line of the search was read
C20_Witness ==
    /\ pc = "returned"
    /\ lastOp.op = "get_best_move"
    /\ lastOp.crashIn = 3
    /\ lastOp.err = "StockfishException"
    /\ trace = << <<"send", <<"go", "depth", "15">>>> >>
    /\ Len(out) = 2
    /\ ~alive

(***************************************************************************)
(* Writing to a process that has exited.                                   *)
(***************************************************************************)
\* a direct _put made when the process had already exited
PutToExited == lastOp'.op = "_put" /\ ~alive

\* C21 (as stated): sending a command fails with the ChannelBroken condition
\* (BrokenPipeError) when the engine process has already exited.
C21_SendToExitedFails ==
    [][PutToExited => lastOp'.err = "BrokenPipeError"]_vars

\* C21 (amended): sending a command to a process that has already exited
\* returns normally, writes nothing and changes nothing of the session.
C21_SendToExitedIsSilent ==
    [][PutToExited
       => /\ lastOp'.err = "none"
          /\ pc' = "returned"
          /\ trace' = <<>>
          /\ UNCHANGED <<parameters, depth, num_nodes, turn_perspective, info,
                         has_quit_command_been_sent, version, alive, epos, eopts, out>>]_vars

\* C21: _put("ucinewgame") has returned normally on a session whose engine had
\* died between two calls, quit never having been sent
C21_Witness ==
    /\ pc = "returned"
    /\ lastOp.op = "_put"
    /\ lastOp.args = << <<"ucinewgame">> >>
    /\ lastOp.err = "none"
    /\ ~alive
    /\ ~has_quit_command_been_sent
    /\ trace = <<>>

(***************************************************************************)
(* The keys of the in-memory parameters.                                   *)
(***************************************************************************)
\* C22: in every state after construction, the keys of the in-memory
\* parameters are names of the registry (_PARAM_RESTRICTIONS), whatever
\* updates were made, accepted or rejected.
C22_KeysRegistered == DOMAIN parameters \subseteq DOMAIN PARAM_RESTRICTIONS

\* C22: an update whose batch names a parameter outside the registry after a
\* registered one has been rejected, the keys being those of the defaults
C22_Witness ==
    /\ UpdateEnded
    /\ lastOp.err = "ValueError"
    /\ Len(lastOp.args[1]) = 2
    /\ lastOp.args[1][1][1] \in DOMAIN PARAM_RESTRICTIONS
    /\ lastOp.args[1][2][1] \notin DOMAIN PARAM_RESTRICTIONS
    /\ DOMAIN parameters = DictKeys(DEFAULT_STOCKFISH_PARAMS)

(***************************************************************************)
(* The names update_engine_parameters accepts.                             *)
(***************************************************************************)
\* update_engine_parameters has ended, from a batch that is not empty and
\* whose every entry has a registered name and a value of that name's type,
\* within its bounds
GoodBatchEnded ==
    /\ UpdateEnded
    /\ lastOp.args[1] # <<>>
    /\ \A i \in DOMAIN lastOp.args[1] : ~BadEntry(lastOp.args[1][i])

\* C23: on an initialized session update_engine_parameters accepts every
\* registered name, UCI_ShowWDL included, when the value satisfies the name's
\* type and bounds: the call returns normally.
C23_RegisteredAccepted == GoodBatchEnded => lastOp.err = "none"

\* the same holds of the names other than UCI_ShowWDL, which are the keys of
\* the defaults
OtherNamesAccepted ==
    (GoodBatchEnded /\ \A i \in DOMAIN lastOp.args[1] : lastOp.args[1][i][1] # "UCI_ShowWDL")
        => lastOp.err = "none"

(***************************************************************************)
(* The upper bound of Hash.                                                *)
(***************************************************************************)
\* platform.machine() of the hosts: one 64-bit, one 32-bit
Machines == {"x86_64", "i686"}

\* the bound the repository's test expects of the registry on a host:
\* 2 ** (25 if "64" in platform.machine() else 11)
ExpectedMaxHash(machine) == IF machine = "x86_64" THEN 2^25 ELSE 2^11

\* update_engine_parameters has ended, from the batch of the one entry Hash
\* with an integer value
HashUpdateEnded ==
    /\ UpdateEnded
    /\ Len(lastOp.args[1]) = 1
    /\ lastOp.args[1][1][1] = "Hash"
    /\ lastOp.args[1][1][2].kind = "int"

\* the update of Hash is accepted exactly when the value is within 1 and the
\* bound expected on the host
HashBoundOn(machine) ==
    HashUpdateEnded
        => (lastOp.err = "none"
               <=> lastOp.args[1][1][2].n \in 1 .. ExpectedMaxHash(machine))

\* C24: the inclusive upper bound of Hash is 2^11 on 32-bit hosts and 2^25 on
\* all others: on every host, every integer from 1 to the host's bound is
\* accepted and every value above it is rejected.
C24_HashBoundByHost == \A machine \in Machines : HashBoundOn(machine)

\* on the 32-bit host the bound is the registry's
HashBoundOn32 == HashBoundOn("i686")

(***************************************************************************)
(* The probe of the WDL capability.                                        *)
(***************************************************************************)
\* the option listing was asked for during the call that has just ended
ProbeSent == \E i \in DOMAIN trace : trace[i] = <<"send", <<"uci">>>>

\* C25: the WDL capability is probed once per session, at construction, and
\* cached: no call made on a constructed session (the capability query,
\* get_wdl_stats and verbose get_top_moves included) sends `uci` again.
C25_ProbedOnce == (lastOp.op # "__init__") => ~ProbeSent

(***************************************************************************)
(* The advisory of a session on a weaker setting.                          *)
(***************************************************************************)
\* the session is on a weaker setting
Weaker == parameters["UCI_LimitStrength"] = BoolV(TRUE) \/ parameters["Skill Level"].n < 20

\* one of the operations `ops` has returned normally, with the advisory
\* exactly when the session is on a weaker setting
AdvisesWhenWeaker(ops) ==
    (pc = "returned" /\ lastOp.op \in ops /\ lastOp.err = "none") => (lastOp.warned <=> Weaker)

\* C26: each of get_evaluation, get_wdl_stats, get_top_moves and
\* is_move_correct, when it completes, has emitted the advisory if the session
\* is on a weaker setting (UCI_LimitStrength true or Skill Level below 20),
\* and none if the session is at full strength.
C26_AdvisoryWhenWeaker ==
    AdvisesWhenWeaker({"get_evaluation", "get_wdl_stats", "get_top_moves", "is_move_correct"})

\* the three of them that call _weaker_setting_warning do as much
ThreeAdvise == AdvisesWhenWeaker({"get_evaluation", "get_wdl_stats", "get_top_moves"})

(***************************************************************************)
(* SpecPerft: get_perft reading what the program at `path` prints for      *)
(* `go perft`.  The session reads lines; nothing makes the program a       *)
(* correct counter, so its answer is any text of the perft form: per-move  *)
(* lines, a blank line, the `Nodes searched` line, a blank line.           *)
(***************************************************************************)
MaxPerftCount == 2

PerftMoveLists == {<<>>, <<"e2e4">>, <<"e2e4", "d2d4">>, <<"e2e4", "e2e4">>}

PerftAnswer(moves, counts, total) ==
    [i \in DOMAIN moves |-> <<moves[i], ":", NatToStr(counts[i])>>]
    \o << <<>>, <<"Nodes", "searched", ":", NatToStr(total)>>, <<>> >>

PerftAnswers ==
    UNION { { PerftAnswer(moves, counts, total) :
                counts \in [DOMAIN moves -> 1 .. MaxPerftCount],
                total \in 0 .. (2 * MaxPerftCount) } :
            moves \in PerftMoveLists }

\* the program, having read `go perft`, has printed `answer`
AnsweredWith(s, answer) == IF Ok(s) /\ s.alive /\ ~s.quit THEN [s EXCEPT !.out = answer] ELSE s

\* Stockfish.get_perft, the program answering with `answer`
GetPerftOf(s, depth_value, answer) ==
    IF ~Ok(s) THEN s
    ELSE IF depth_value.kind # "int" \/ depth_value.n < 1 THEN Raise(s, "TypeError")
    ELSE PerftLines(AnsweredWith(Put(s, <<"go", "perft", IntToStr(depth_value.n)>>), answer),
                    <<>>)

Call_get_perft_of(depth_value, answer) ==
    /\ pc = "idle"
    /\ Ends("get_perft", <<depth_value>>, 0, GetPerftOf(Self(0), depth_value, answer), NoTemp)

NextPerft ==
    \/ \E answer \in PerftAnswers : Call_get_perft_of(IntV(1), answer)
    \/ \E depth_value \in {IntV(1), IntV(2), IntV(0)} : Call_get_perft(depth_value)
    \/ \E fen \in {E4Fen, OneMoveFen}, send_ucinewgame_token \in BOOLEAN :
          Call_set_fen_position(fen, send_ucinewgame_token)
    \/ Resume

SpecPerft == Init /\ [][NextPerft]_vars

\* the sum of the counts of a move dictionary
RECURSIVE SumOfCounts(_)
SumOfCounts(move_possibilities) ==
    IF move_possibilities = <<>> THEN 0
    ELSE Head(move_possibilities)[2] + SumOfCounts(Tail(move_possibilities))

PerftReturned == pc = "returned" /\ lastOp.op = "get_perft" /\ lastOp.err = "none"

\* C27: get_perft fails when the per-move counts it read do not sum to the
\* total of the `Nodes searched` line: whenever it returns normally, the
\* returned per-move counts sum to the returned total.
C27_PerftSumChecked == PerftReturned => SumOfCounts(lastOp.ret[2]) = lastOp.ret[1]

(***************************************************************************)
(* SpecShared: what the sessions of one process share.  Beside the calling *)
(* session there is the disposable one of is_fen_valid; either is torn     *)
(* down.  The tables of the class (_PARAM_RESTRICTIONS, _RELEASES,         *)
(* _PIECE_CHARS) are definitions here: no action has them to assign.       *)
(***************************************************************************)
NextShared ==
    \/ NextFrame
    \/ Call_del
    \/ Call_send_quit_command

SpecShared == Init /\ [][NextShared]_vars

\* C28 (as stated): no operation on a session, construction and teardown
\* included, changes process-wide state: no call raises the counter of the
\* class.
C28_NothingShared == lastOp.dels = 0

\* C28 (amended): the one process-wide value an operation changes is the
\* teardown counter of the class: __del__ raises it by one, is_fen_valid by
\* the teardowns of its disposable session (none when the FEN fails the
\* syntax check, two when it returns a verdict, at most two when it raises),
\* and no other operation raises it; and what is_fen_valid does on its
\* disposable session changes nothing of the calling session or its engine.
C28_OnlyTeardownCounterShared ==
    [][/\ lastOp'.op = "__del__" => lastOp'.dels = 1
       /\ lastOp'.op \notin {"__del__", "is_fen_valid"} => lastOp'.dels = 0
       /\ lastOp'.op = "is_fen_valid"
          => /\ ~temp_sf'.created => lastOp'.dels = 0
             /\ (temp_sf'.created /\ lastOp'.err = "none") => lastOp'.dels = 2
             /\ lastOp'.dels <= 2
             /\ UNCHANGED <<parameters, depth, num_nodes, turn_perspective, info, version,
                            has_quit_command_been_sent, alive, epos, eopts, out>>]_vars

\* C28: is_fen_valid has returned True from a disposable session, which was
\* torn down twice, the calling session running on another position
C28_Witness ==
    /\ FenChecked
    /\ lastOp.err = "none"
    /\ lastOp.ret = TRUE
    /\ temp_sf.created
    /\ lastOp.dels = 2
    /\ alive
    /\ epos = E4Fen

(***************************************************************************)
(* SpecBudget: a caller setting the depth and the node budget, to values   *)
(* accepted and rejected, and asking for the top moves under a node        *)
(* override, on a position the engine searches and on one that kills it,   *)
(* the engine dying at any channel access of the search, or not at all.    *)
(***************************************************************************)
Call_set_depth(depth_value) ==
    /\ pc = "idle"
    /\ Ends("set_depth", <<depth_value>>, 0, Return(SetDepth(Self(0), depth_value), NoneV), NoTemp)

\* the arguments of test_set_depth_raises_type_error, and one accepted
DepthInputs == {IntV(12), StrV("12"), BoolV(TRUE), FloatV(12), IntV(0)}

NextBudget ==
    \/ \E depth_value \in DepthInputs : Call_set_depth(depth_value)
    \/ \E nodes \in {0, 7} : Call_set_num_nodes(nodes)
    \/ \E nodes \in {0, 5}, crashIn \in 0 .. MaxCrashPoint :
          Call_get_top_moves(2, FALSE, nodes, crashIn)
    \/ \E fen \in {E4Fen, KingAttackedFen} : Call_set_fen_position(fen, TRUE)
    \/ Call_get_best_move(NoInt, NoInt, 0)
    \/ Resume

SpecBudget == Init /\ [][NextBudget]_vars

\* a call ends, returning or raising
CallEnds == pc = "idle" /\ pc' = "returned"

\* the call that ends is a setter, which has rejected its argument
SetterRejects == lastOp'.op \in {"set_depth", "set_num_nodes"} /\ lastOp'.err # "none"

\* the depth and the node budget are positive when the call `ops` allows for
\* has ended, a setter that rejects its argument has left both as they were,
\* and a call that is no setter has left both as they were
BudgetKept(ops) ==
    (CallEnds /\ lastOp'.op \in ops)
        => /\ depth' >= 1
           /\ num_nodes' >= 1
           /\ SetterRejects => (depth' = depth /\ num_nodes' = num_nodes)
           /\ lastOp'.op # "set_depth" => depth' = depth
           /\ lastOp'.op # "set_num_nodes" => num_nodes' = num_nodes

BudgetCalls ==
    {"set_depth", "set_num_nodes", "get_top_moves", "set_fen_position", "get_best_move"}

\* C29: whenever a public operation has returned or raised, the depth and
\* the node budget are integers >= 1; set_depth and set_num_nodes leave the
\* stored value unchanged when they reject their argument, and no other
\* operation, get_top_moves with a node override included, also when it fails
\* part-way, leaves either value altered.
C29_DepthAndNodesKept == [][BudgetKept(BudgetCalls)]_vars

\* the same holds of the calls other than get_top_moves
OthersKeepBudget == [][BudgetKept(BudgetCalls \ {"get_top_moves"})]_vars

\* and of get_top_moves when it returns
ReturningTopMovesKeepsBudget ==
    [][lastOp'.err = "none" => BudgetKept({"get_top_moves"})]_vars

(***************************************************************************)
(* The two phases of is_fen_valid.                                         *)
(***************************************************************************)
\* C30: when the syntax check rejects the FEN, is_fen_valid returns False
\* having created no disposable session and sent no command; when the syntax
\* check accepts it, is_fen_valid has created its one disposable session.
C30_SyntaxFirst ==
    FenChecked
        => IF IsFenSyntaxValid(lastOp.args[1])
           THEN temp_sf.created
           ELSE /\ ~temp_sf.created
                /\ lastOp.err = "none"
                /\ lastOp.ret = FALSE
                /\ trace = <<>>
                /\ lastOp.dels = 0

\* C30: is_fen_valid has returned False for a FEN that fails the syntax check,
\* no disposable session having been created
C30_Witness ==
    /\ FenChecked
    /\ lastOp.args[1] = BadSyntaxFen
    /\ ~IsFenSyntaxValid(BadSyntaxFen)
    /\ lastOp.err = "none"
    /\ lastOp.ret = FALSE
    /\ ~temp_sf.created
    /\ trace = <<>>

(***************************************************************************)
(* reset_engine_parameters.                                                *)
(***************************************************************************)
\* the default table, as the mapping name -> value
DefaultTable ==
    [name \in DictKeys(DEFAULT_STOCKFISH_PARAMS) |-> DictGet(DEFAULT_STOCKFISH_PARAMS, name)]

ResetReturns == lastOp'.op = "reset_engine_parameters" /\ lastOp'.err = "none"

\* C31: when reset_engine_parameters returns, from any configuration, the
\* in-memory parameters are the default table exactly (UCI_LimitStrength
\* false, no other key), and a reset made on the defaults leaves them as
\* they are.
C31_ResetGivesDefaults ==
    [][ResetReturns
       => /\ parameters' = DefaultTable
          /\ parameters'["UCI_LimitStrength"] = BoolV(FALSE)
          /\ parameters = DefaultTable => parameters' = parameters]_vars

\* C31: reset_engine_parameters has returned, having sent the engine every
\* default, on a position other than the start
C31_Witness ==
    /\ pc = "returned"
    /\ lastOp.op = "reset_engine_parameters"
    /\ lastOp.err = "none"
    /\ parameters = DefaultTable
    /\ \E i \in DOMAIN trace :
          trace[i] = <<"send", <<"setoption", "name", "Skill Level", "value", "20">>>>
    /\ eopts["UCI_LimitStrength"] = "false"
    /\ epos = E4Fen

(***************************************************************************)
(* What get_evaluation, get_top_moves and get_wdl_stats return, against    *)
(* the lines the engine printed for the search.                            *)
(***************************************************************************)
\* the lines the engine printed for the last command of the call that ends
SearchLines == GoOutput(epos, eopts, trace'[Len(trace')][2])

\* the token k places after the token tok of a line
TokenAfter(line, tok, k) == line[(CHOOSE i \in DOMAIN line : line[i] = tok) + k]

\* the last `info` line of a search output
LastInfoLine(lines) ==
    lines[CHOOSE i \in DOMAIN lines :
            /\ lines[i][1] = "info"
            /\ \A j \in DOMAIN lines : (j > i => lines[j][1] # "info")]

\* the score of a line, negated or not
ScoreOfLine(line, negated) ==
    [type |-> TokenAfter(line, "score", 1),
     value |-> IF negated THEN 0 - ParseInt(TokenAfter(line, "score", 2))
               ELSE ParseInt(TokenAfter(line, "score", 2))]

\* C32: get_evaluation returns the kind and the value of the score of the
\* last `info` line of the search output, the value negated exactly when the
\* turn perspective is off and black is to move.
C32_EvaluationOfLastInfo ==
    [][(lastOp'.op = "get_evaluation" /\ lastOp'.err = "none")
       => /\ trace'[Len(trace')][2][1] = "go"
          /\ lastOp'.ret = ScoreOfLine(LastInfoLine(SearchLines),
                                       ~turn_perspective /\ epos[2] = "b")]_vars

\* C32: get_evaluation has returned the engine's centipawns negated, black
\* being to move and the turn perspective off
C32_Witness ==
    /\ pc = "returned"
    /\ lastOp.op = "get_evaluation"
    /\ lastOp.err = "none"
    /\ ~turn_perspective
    /\ epos = E4Fen
    /\ lastOp.ret = [type |-> "cp", value |-> -10]

\* the search command of the call that ends
SearchCommand ==
    trace'[CHOOSE i \in DOMAIN trace' : trace'[i][1] = "send" /\ trace'[i][2][1] = "go"][2]

\* the lines the engine printed for the search of get_top_moves, which it
\* made with MultiPV at the number of moves asked for
TopMovesLines ==
    GoOutput(epos, [eopts EXCEPT !["MultiPV"] = NatToStr(lastOp'.args[1])], SearchCommand)

\* a line counts for a search by depth (by nodes) with the target given
LineCounts(line, byNodes, target) ==
    /\ \E i \in DOMAIN line : line[i] = "multipv"
    /\ \E i \in DOMAIN line : line[i] = "depth"
    /\ IF byNodes THEN ParseInt(TokenAfter(line, "nodes", 1)) >= target
       ELSE ParseInt(TokenAfter(line, "depth", 1)) = target

\* the run of lines that count, ending at line i, in the order printed
RECURSIVE TrailingRun(_, _, _, _)
TrailingRun(lines, i, byNodes, target) ==
    IF i = 0 \/ ~LineCounts(lines[i], byNodes, target) THEN <<>>
    ELSE Append(TrailingRun(lines, i - 1, byNodes, target), lines[i])

\* the lines get_top_moves is to report: none when the engine has no move
ReportedLines(lines, byNodes, target) ==
    IF lines[Len(lines)][2] = "(none)" THEN <<>>
    ELSE TrailingRun(lines, Len(lines) - 1, byNodes, target)

\* the moves returned are those of the lines `run`, one for one
MovesOf(top_moves, run) ==
    /\ Len(top_moves) = Len(run)
    /\ \A i \in DOMAIN run : top_moves[i].Move = TokenAfter(run[i], "pv", 1)

\* C33: get_top_moves returns the moves of the trailing run of multi-line
\* `info` lines before `bestmove` whose depth is the configured depth (in
\* node mode: whose node count is not below the node target), in the order
\* printed, and the empty list when the engine answers `bestmove (none)`.
C33_TopMovesTrailingRun ==
    [][(lastOp'.op = "get_top_moves" /\ lastOp'.err = "none")
       => MovesOf(lastOp'.ret,
                  ReportedLines(TopMovesLines, lastOp'.args[3] > 0,
                                IF lastOp'.args[3] > 0 THEN lastOp'.args[3] ELSE depth))]_vars

\* C33: get_top_moves, searching by depth, has returned three moves, the
\* engine having printed as many lines for the depth before
C33_Witness ==
    /\ pc = "returned"
    /\ lastOp.op = "get_top_moves"
    /\ lastOp.err = "none"
    /\ lastOp.args = <<3, FALSE, 0>>
    /\ Len(lastOp.ret) = 3
    /\ lastOp.ret[1].Move = "e7e5"
    /\ lastOp.ret[3].Move = "e7e6"
    /\ epos = E4Fen

\* the last line of a search output that holds ` multipv 1 `
LastMultiPV1Line(lines) ==
    lines[CHOOSE i \in DOMAIN lines :
            /\ \E k \in DOMAIN lines[i] :
                  k < Len(lines[i]) /\ lines[i][k] = "multipv" /\ lines[i][k + 1] = "1"
            /\ \A j \in DOMAIN lines :
                  j > i => ~\E k \in DOMAIN lines[j] :
                              k < Len(lines[j]) /\ lines[j][k] = "multipv" /\ lines[j][k + 1] = "1"]

\* the three integers after `wdl`
WdlTriple(line) ==
    <<ParseInt(TokenAfter(line, "wdl", 1)), ParseInt(TokenAfter(line, "wdl", 2)),
      ParseInt(TokenAfter(line, "wdl", 3))>>

\* what get_wdl_stats is to return from the lines of its search
WdlExpected(lines, get_as_tuple) ==
    IF lines[Len(lines)] = <<"bestmove", "(none)">> THEN NoneV
    ELSE [tuple |-> get_as_tuple, stats |-> WdlTriple(LastMultiPV1Line(lines))]

\* a search was started during the call that has just ended
SearchSent == \E i \in DOMAIN trace' : trace'[i][1] = "send" /\ trace'[i][2][1] = "go"

\* C34: get_wdl_stats returns None exactly when the search output ends with
\* `bestmove (none)`, and otherwise the three integers after `wdl` on the
\* last ` multipv 1 ` line; on an engine that does not advertise UCI_ShowWDL
\* it fails without starting a search.
C34_WdlOfLastLine ==
    [][(lastOp'.op = "get_wdl_stats" /\ alive)
       => IF engine.hasWdl
          THEN lastOp'.err = "none"
                  => lastOp'.ret = WdlExpected(SearchLines, lastOp'.args[1])
          ELSE lastOp'.err = "RuntimeError" /\ ~SearchSent]_vars

\* C34: get_wdl_stats has returned the triple of the engine's line, as a tuple
C34_Witness ==
    /\ pc = "returned"
    /\ lastOp.op = "get_wdl_stats"
    /\ lastOp.err = "none"
    /\ lastOp.ret = [tuple |-> TRUE, stats |-> <<400, 300, 300>>]
    /\ engine.hasWdl
    /\ epos = OneMoveFen

(***************************************************************************)
(* The board from black's side.                                            *)
(***************************************************************************)
\* what get_board_visual() returns from white's side in the current state
WhiteVisual == GetBoardVisual(Self(0), TRUE).ret

\* a rank line with its squares in the order h to a; the bars and the rank
\* number stay where they are
SquaresMirrored(gridLine) ==
    IF gridLine[1] # "|" THEN gridLine
    ELSE [k \in DOMAIN gridLine |->
            IF k <= 17 /\ k % 2 = 0 THEN gridLine[18 - k] ELSE gridLine[k]]

\* the 17 grid lines in reverse order with their squares mirrored, and the
\* legend, when there is one, mirrored
SeenFromBlack(rows) ==
    [i \in DOMAIN rows |->
        IF i <= 17 THEN SquaresMirrored(rows[18 - i]) ELSE Reverse(rows[i])]

\* C35: for every board dump, get_board_visual(False) returns what
\* get_board_visual(True) returns with the squares of each rank line mirrored
\* left to right and the 17 grid lines in reverse order, each rank number
\* staying with its rank, and the legend, when the engine prints one,
\* mirrored too.
C35_BlackIsWhiteMirrored ==
    [][(lastOp'.op = "get_board_visual" /\ lastOp'.args = <<FALSE>> /\ lastOp'.err = "none")
       => lastOp'.ret = SeenFromBlack(WhiteVisual)]_vars

\* C35: the board after e2e4 has been returned from black's side by a build
\* that prints the coordinates
C35_Witness ==
    /\ pc = "returned"
    /\ lastOp.op = "get_board_visual"
    /\ lastOp.args = <<FALSE>>
    /\ lastOp.err = "none"
    /\ epos = E4Fen
    /\ Len(lastOp.ret) = 18
    /\ lastOp.ret[2] = <<"|", "R", "|", "N", "|", "B", "|", "K", "|", "Q", "|", "B", "|", "N",
                         "|", "R", "|", "1">>
    /\ lastOp.ret[8] = <<"|", " ", "|", " ", "|", " ", "|", "P", "|", " ", "|", " ", "|", " ",
                         "|", " ", "|", "4">>
    /\ lastOp.ret[18] = <<"h", "g", "f", "e", "d", "c", "b", "a">>

(***************************************************************************)
(* The version resolver on the identifiers a build may carry.              *)
(***************************************************************************)
\* build dates: each release date of the table, the day before it and the
\* day after it, the dates of the tests, a leap day, and the first day that
\* DDMMYY can name
BuildDates ==
    { <<2000, 1, 1>>, <<2015, 12, 19>>, <<2018, 11, 28>>, <<2018, 11, 29>>, <<2018, 11, 30>>,
      <<2020, 1, 17>>, <<2020, 1, 18>>, <<2020, 1, 19>>, <<2020, 2, 29>>, <<2020, 9, 1>>,
      <<2020, 9, 2>>, <<2020, 9, 3>>, <<2021, 2, 18>>, <<2021, 2, 19>>, <<2021, 2, 20>>,
      <<2021, 7, 1>>, <<2021, 7, 2>>, <<2021, 7, 3>>, <<2021, 10, 27>>, <<2021, 10, 28>>,
      <<2021, 10, 29>>, <<2022, 3, 28>>, <<2022, 4, 17>>, <<2022, 4, 18>>, <<2022, 4, 19>>,
      <<2022, 12, 3>>, <<2022, 12, 4>>, <<2022, 12, 5>>, <<2022, 12, 19>>, <<2023, 6, 29>>,
      <<2023, 6, 30>>, <<2023, 7, 1>>, <<2023, 7, 25>> }

Digits2(n) == <<Digit(n \div 10), Digit(n % 10)>>

Digits4(n) == Digits2(n \div 100) \o Digits2(n % 100)

Shas == {<<"6", "1", "e", "a", "1", "5", "3", "4">>, <<"a", "b">>}

\* `dev-YYYYMMDD-sha` and `DDMMYY` of a build date
DevText(date, sha) ==
    <<"d", "e", "v", "-">> \o Digits4(date[1]) \o Digits2(date[2]) \o Digits2(date[3])
    \o <<"-">> \o sha

SixText(date) == Digits2(date[3]) \o Digits2(date[2]) \o Digits2(date[1] % 100)

\* plain identifiers: <<major, minor>>, and <<major>> for a text without a minor part
PlainVersions == {<<15, 1>>, <<14>>, <<16>>, <<16, 0>>, <<11>>, <<9>>, <<2, 6>>}

RECURSIVE NatChars(_)
NatChars(n) == IF n < 10 THEN <<Digit(n)>> ELSE NatChars(n \div 10) \o <<Digit(n % 10)>>

PlainText(p) ==
    IF Len(p) = 1 THEN NatChars(p[1]) ELSE NatChars(p[1]) \o <<".">> \o NatChars(p[2])

\* texts that are no identifier: a word, six letters, a day that no month
\* has, a development text without its sha, a text ending in the point
OtherTexts ==
    { <<"w", "o", "r", "d">>, <<"a", "b", "c", "d", "e", "f">>,
      <<"3", "1", "0", "2", "2", "2">>, <<"d", "e", "v", "-", "2", "0", "2", "2", "1", "2", "1", "9">>,
      <<"1", "6", ".">> }

VersionTexts ==
    {DevText(date, sha) : date \in BuildDates, sha \in Shas}
    \cup {SixText(date) : date \in BuildDates}
    \cup {PlainText(p) : p \in PlainVersions}
    \cup OtherTexts

Call_parse_stockfish_version(version_text) ==
    /\ pc = "idle"
    /\ Ends("_parse_stockfish_version", <<version_text>>, 0,
            ParseStockfishVersion(Self(0), version_text), NoTemp)

NextVersion ==
    \/ \E version_text \in VersionTexts : Call_parse_stockfish_version(version_text)
    \/ Resume

SpecVersion == Init /\ [][NextVersion]_vars

\* the i-th release of the table is on or before the date
OnOrBefore(i, date) == DateOrd(RELEASES[i].date) <= DateOrd(date)

\* the release with the latest date among those on or before the date
LatestRelease(date) ==
    CHOOSE i \in DOMAIN RELEASES :
        /\ OnOrBefore(i, date)
        /\ \A j \in DOMAIN RELEASES :
              OnOrBefore(j, date) => DateOrd(RELEASES[j].date) <= DateOrd(RELEASES[i].date)

\* the parse has ended with the major and minor of the release, as a development build
ResolvedAs(i) ==
    /\ lastOp.err = "none"
    /\ version.is_dev_build
    /\ version.major = PyInt(SubSeq(RELEASES[i].key, 1, 2))
    /\ version.minor = PyInt(SubSeq(RELEASES[i].key, 4, 4))

ResolvedTo(date) ==
    IF \E i \in DOMAIN RELEASES : OnOrBefore(i, date)
    THEN ResolvedAs(LatestRelease(date))
    ELSE lastOp.err = "Exception"

ParsedPlain(p) ==
    /\ lastOp.err = "none"
    /\ ~version.is_dev_build
    /\ version.major = p[1]
    /\ version.minor = (IF Len(p) = 1 THEN 0 ELSE p[2])

\* C36: for every build date, the resolver finds the release of the table
\* with the latest date on or before the build date, and fails when there is
\* none; `dev-YYYYMMDD-sha` and `DDMMYY` take major and minor from that
\* release and are marked development builds; a plain `major.minor` is not.
C36_LatestReleaseOnOrBefore ==
    (pc = "returned" /\ lastOp.op = "_parse_stockfish_version")
        => /\ \A date \in BuildDates :
                 lastOp.args[1] \in ({DevText(date, sha) : sha \in Shas} \cup {SixText(date)})
                     => ResolvedTo(date)
           /\ \A p \in PlainVersions : lastOp.args[1] = PlainText(p) => ParsedPlain(p)

\* C36: dev-20221219-61ea1534 has been resolved to 15.1, a development build
C36_Witness ==
    /\ pc = "returned"
    /\ lastOp.op = "_parse_stockfish_version"
    /\ lastOp.args[1] = DevText(<<2022, 12, 19>>, <<"6", "1", "e", "a", "1", "5", "3", "4">>)
    /\ lastOp.err = "none"
    /\ version.major = 15
    /\ version.minor = 1
    /\ version.full = 151
    /\ version.is_dev_build
    /\ version.sha = <<"6", "1", "e", "a", "1", "5", "3", "4">>

(***************************************************************************)
(* Captures.  A move text and a square are tuples of characters; the move  *)
(* is sent as the text they spell.                                         *)
(***************************************************************************)
RECURSIVE Join(_)
Join(chars) == IF chars = <<>> THEN "" ELSE Head(chars) \o Join(Tail(chars))

Files == <<"a", "b", "c", "d", "e", "f", "g", "h">>

\* ord(file_letter) - ord("a"), for the letters a to h
FileIndex(file_letter) == (CHOOSE i \in DOMAIN Files : Files[i] = file_letter) - 1

\* Stockfish.get_what_is_on_square, on letters of lower case.  PieceAt: the
\* character at [2 + 4 * file] of line [17 - 2 * rank] of the board text.
PieceAt(s, file, rank_num) ==
    IF ~Ok(s) THEN s
    ELSE Return(s, IF s.ret[18 - 2 * rank_num][2 * (file + 1)] = " " THEN NoneV
                   ELSE <<s.ret[18 - 2 * rank_num][2 * (file + 1)]>>)

GetWhatIsOnSquare(s, square) ==
    IF ~Ok(s) THEN s
    ELSE IF Len(square) < 2 THEN Raise(s, "IndexError")
    ELSE IF ~IsDigit(square[2]) THEN Raise(s, "ValueError")
    ELSE IF \/ Len(square) # 2
            \/ ~\E i \in DOMAIN Files : Files[i] = square[1]
            \/ DigitVal(square[2]) < 1
            \/ DigitVal(square[2]) > 8
    THEN Raise(s, "ValueError")
    ELSE PieceAt(GetBoardVisual(s, TRUE), FileIndex(square[1]), DigitVal(square[2]))

\* Stockfish.will_move_be_a_capture.  CaptureOnOccupied: the ending square
\* holds a piece; EnPassantOr: from the FEN read for the en-passant square on.
CaptureOnOccupied(s, starting_square_piece, ending_square_piece) ==
    IF s.parameters["UCI_Chess960"] # BoolV(TRUE) THEN Return(s, "direct capture")
    ELSE IF <<starting_square_piece, ending_square_piece>>
                \in {<< <<"K">>, <<"R">> >>, << <<"k">>, <<"r">> >>}
    THEN Return(s, "no capture")
    ELSE Return(s, "direct capture")

EnPassantOr(s, move_value, starting_square_piece) ==
    IF ~Ok(s) THEN s
    ELSE IF Len(s.ret) < 4 THEN Raise(s, "IndexError")
    ELSE Return(s, IF /\ Join(Slice(move_value, 2, 4)) = s.ret[4]
                      /\ starting_square_piece \in {<<"P">>, <<"p">>}
                   THEN "en passant" ELSE "no capture")

CaptureKind(s, move_value, starting_square_piece) ==
    IF ~Ok(s) THEN s
    ELSE IF s.ret # NoneV THEN CaptureOnOccupied(s, starting_square_piece, s.ret)
    ELSE EnPassantOr(GetFenPosition(s), move_value, starting_square_piece)

EndingSquare(s, move_value) ==
    IF ~Ok(s) THEN s
    ELSE CaptureKind(GetWhatIsOnSquare(s, Slice(move_value, 2, 4)), move_value, s.ret)

CheckedCapture(s, move_value) ==
    IF ~Ok(s) THEN s
    ELSE IF s.ret # TRUE THEN Raise(s, "ValueError")
    ELSE EndingSquare(GetWhatIsOnSquare(s, Slice(move_value, 0, 2)), move_value)

WillMoveBeACapture(s, move_value) ==
    CheckedCapture(IsMoveCorrect(s, Join(move_value)), move_value)

Call_will_move_be_a_capture(move_value) ==
    /\ pc = "idle"
    /\ Ends("will_move_be_a_capture", <<move_value>>, 0,
            WillMoveBeACapture(Self(0), move_value), NoTemp)

\* the moves of the tests, a legal move of the start position, a move of no
\* piece, a word, and the empty text
CaptureMoves ==
    { <<"c", "3", "d", "5">>, <<"e", "5", "d", "6">>, <<"f", "1", "e", "2">>,
      <<"e", "5", "f", "6">>, <<"a", "3", "d", "6">>, <<"a", "7", "a", "8", "q">>,
      <<"a", "7", "b", "8", "q">>, <<"c", "3", "c", "5">>,
      <<"f", "1", "h", "1">>, <<"f", "1", "e", "1">>, <<"f", "1", "g", "1">>,
      <<"e", "2", "e", "4">>, <<"w", "o", "r", "d">>, <<>> }

NextCapture ==
    \/ \E move_value \in CaptureMoves : Call_will_move_be_a_capture(move_value)
    \/ \E fen \in {CaptureFen, Chess960Fen, MateFen} : Call_set_fen_position(fen, TRUE)
    \/ \E value \in BOOLEAN :
          Call_update_engine_parameters(<< <<"UCI_Chess960", BoolV(value)>> >>, 0)
    \/ Resume

SpecCapture == Init /\ [][NextCapture]_vars

\* what stands on a square of the position the engine holds
Occupant(square) ==
    RankSquares(PlacementRanks(epos[1])[9 - DigitVal(square[2])])[FileIndex(square[1]) + 1]

\* the engine takes the text for a move of its position
LegalHere(move_value) == EngineReads(epos, eopts, Join(move_value))

OwnRookUnderKing(move_value) ==
    <<Occupant(Slice(move_value, 0, 2)), Occupant(Slice(move_value, 2, 4))>>
        \in {<<"K", "R">>, <<"k", "r">>}

\* the class the claim gives a legal move
ClassOf(move_value) ==
    IF Occupant(Slice(move_value, 2, 4)) # " "
    THEN (IF parameters["UCI_Chess960"] = BoolV(TRUE) /\ OwnRookUnderKing(move_value)
          THEN "no capture" ELSE "direct capture")
    ELSE IF /\ Join(Slice(move_value, 2, 4)) = epos[4]
            /\ Occupant(Slice(move_value, 0, 2)) \in {"P", "p"}
    THEN "en passant"
    ELSE "no capture"

Classified(moves) ==
    (lastOp'.op = "will_move_be_a_capture" /\ lastOp'.args[1] \in moves /\ alive)
        => IF LegalHere(lastOp'.args[1])
           THEN lastOp'.err = "none" /\ lastOp'.ret = ClassOf(lastOp'.args[1])
           ELSE lastOp'.err = "ValueError"

\* C37: will_move_be_a_capture gives a legal move onto an occupied square the
\* class direct capture, except that with UCI_Chess960 on a king moving onto
\* a rook of its own colour is no capture; a move onto an empty square is en
\* passant exactly when the square is the en-passant square of the FEN and
\* the piece moved is a pawn, and no capture otherwise; a text that is no
\* legal move raises ValueError.
C37_CaptureClassified == [][Classified(CaptureMoves)]_vars

\* the same holds of every text but the empty one
NonEmptyClassified == [][Classified(CaptureMoves \ {<<>>})]_vars

(***************************************************************************)
(* The commands of a new position.                                         *)
(***************************************************************************)
\* what set_fen_position is to write and read, in order
NewPositionEvents(fen, send_ucinewgame_token) ==
    (IF send_ucinewgame_token THEN << <<"send", <<"ucinewgame">>>> >> ELSE <<>>)
    \o << <<"send", <<"isready">>>>, <<"recv", <<"readyok">>>>,
          <<"send", <<"position", "fen">> \o fen>> >>

IsPrefix(a, b) == Len(a) <= Len(b) /\ SubSeq(b, 1, Len(a)) = a

\* C38: set_fen_position writes `ucinewgame` if and only if the flag is true,
\* then `isready`, then, after `readyok` has been read, `position fen <fen>`,
\* and nothing else; set_position begins with the same for the start position
\* with the flag true, and replays its moves after it.
C38_NewPositionOrder ==
    /\ (pc = "returned" /\ lastOp.op = "set_fen_position")
          => IF lastOp.err = "none"
             THEN trace = NewPositionEvents(lastOp.args[1], lastOp.args[2])
             ELSE IsPrefix(trace, NewPositionEvents(lastOp.args[1], lastOp.args[2]))
    /\ (pc = "returned" /\ lastOp.op = "set_position")
          => IF lastOp.err = "none" /\ lastOp.args[1] = <<>>
             THEN trace = NewPositionEvents(StartFen, TRUE)
             ELSE IsPrefix(NewPositionEvents(StartFen, TRUE), trace)

\* C38: set_fen_position without the flag has written isready and, after
\* readyok, the position; set_position of one move has replayed it after the
\* four events of the start position
C38_Witness ==
    /\ pc = "returned"
    /\ lastOp.err = "none"
    /\ \/ /\ lastOp.op = "set_fen_position"
          /\ lastOp.args = <<OneMoveFen, FALSE>>
          /\ trace = << <<"send", <<"isready">>>>, <<"recv", <<"readyok">>>>,
                        <<"send", <<"position", "fen">> \o OneMoveFen>> >>
       \/ /\ lastOp.op = "set_position"
          /\ lastOp.args = << <<"e2e4">> >>
          /\ Len(trace) > 4
          /\ trace[1] = <<"send", <<"ucinewgame">>>>

(***************************************************************************)
(* SpecDrop: calls that wait for the engine after quit was written.  The   *)
(* call's own command is dropped by _put, and its _read_line, the process  *)
(* still running, sits in readline() (pc = "reading") until the engine,    *)
(* which has read quit, exits; the read then returns at the end of the     *)
(* stream and the next poll raises.                                        *)
(***************************************************************************)
\* the calls that wait: a barrier, a FEN dump, a board dump, a search drain
WaitingCalls ==
    { <<"set_fen_position", <<E4Fen, TRUE>>>>, <<"set_fen_position", <<OneMoveFen, FALSE>>>>,
      <<"get_fen_position", <<>>>>, <<"get_board_visual", <<TRUE>>>>,
      <<"get_board_visual", <<FALSE>>>>, <<"get_best_move", <<>>>>,
      <<"is_move_correct", <<"e2e4">>>> }

RunOf(call, s) ==
    CASE call[1] = "set_fen_position" -> Return(SetFenPosition(s, call[2][1], call[2][2]), NoneV)
      [] call[1] = "get_fen_position" -> GetFenPosition(s)
      [] call[1] = "get_board_visual" -> GetBoardVisual(s, call[2][1])
      [] call[1] = "get_best_move" -> GetBestMove(s, NoInt, NoInt)
      [] call[1] = "is_move_correct" -> IsMoveCorrect(s, call[2][1])

\* the call has come to a read that the engine, sent quit and still running,
\* will not answer: r is the run up to that read
EntersRead(call, r) ==
    /\ parameters' = r.parameters
    /\ depth' = r.depth
    /\ num_nodes' = r.num_nodes
    /\ turn_perspective' = r.turn_perspective
    /\ info' = r.info
    /\ has_quit_command_been_sent' = r.quit
    /\ version' = r.version
    /\ alive' = alive
    /\ epos' = r.epos
    /\ eopts' = r.eopts
    /\ out' = r.out
    /\ engine' = engine
    /\ pc' = "reading"
    /\ lastOp' = [op |-> call[1], args |-> call[2], crashIn |-> 0, err |-> "none", ret |-> NoneV,
                  warned |-> r.warned, dels |-> r.dels]
    /\ trace' = r.trace
    /\ temp_sf' = NoTemp
    /\ barrier' = StillOpen(barrier \o r.trace)
    /\ missed' = MissedKinds(barrier \o r.trace)
    /\ quitWrites' = quitWrites + QuitCount(r.trace)
    /\ teardowns' = teardowns

CallEndsOrReads(call, r) ==
    IF alive /\ has_quit_command_been_sent /\ r.err = "StockfishException"
    THEN EntersRead(call, r)
    ELSE Ends(call[1], call[2], 0, r, NoTemp)

Call_waiting(call) ==
    /\ pc = "idle"
    /\ CallEndsOrReads(call, RunOf(call, Self(0)))

\* the engine process, which was sent quit, exits while the session reads
EngineExitsUnderRead ==
    /\ pc = "reading"
    /\ alive
    /\ has_quit_command_been_sent
    /\ alive' = FALSE
    /\ UNCHANGED <<parameters, depth, num_nodes, turn_perspective, info,
                   has_quit_command_been_sent, version, epos, eopts, out, engine,
                   pc, lastOp, trace, temp_sf, barrier, missed, quitWrites, teardowns>>

\* readline() has returned at the end of the stream; the loop reads again,
\* and poll() is not None
Read_fails ==
    /\ pc = "reading"
    /\ ~alive
    /\ pc' = "returned"
    /\ lastOp' = [lastOp EXCEPT !.err = "StockfishException"]
    /\ UNCHANGED <<parameters, depth, num_nodes, turn_perspective, info,
                   has_quit_command_been_sent, version, alive, epos, eopts, out, engine,
                   trace, temp_sf, barrier, missed, quitWrites, teardowns>>

NextDrop ==
    \/ \E call \in WaitingCalls : Call_waiting(call)
    \/ EngineExitsUnderRead
    \/ Read_fails
    \/ Call_put(<<"quit">>)
    \/ \E moves \in {<<"e2e4">>, <<"e2e4", "e7e5">>} : Call_make_moves_from_current_position(moves, 0)
    \/ Resume

\* An engine that has read quit exits, and a read of an exited engine returns.
SpecDrop == Init /\ [][NextDrop]_vars /\ WF_vars(EngineExitsUnderRead) /\ WF_vars(Read_fails)

\* C39: once quit has been written, a call that waits for output of the
\* engine never blocks for ever: it writes nothing, its own command being
\* dropped, and, the engine exiting after quit, it ends with
\* StockfishException.
C39_NoBlockAfterQuit ==
    /\ [](has_quit_command_been_sent => pc # "hung")
    /\ []((pc = "reading") => (has_quit_command_been_sent /\ Sent(trace) = <<>>))
    /\ (pc = "reading") ~> (pc = "returned" /\ lastOp.err = "StockfishException" /\ ~alive)

\* C39: get_fen_position, called after quit, has ended with StockfishException
\* having written nothing
C39_Witness ==
    /\ pc = "returned"
    /\ lastOp.op = "get_fen_position"
    /\ lastOp.err = "StockfishException"
    /\ has_quit_command_been_sent
    /\ ~alive
    /\ trace = <<>>

(***************************************************************************)
(* The diagnostic text across parameter updates.                           *)
(***************************************************************************)
\* SpecInfo: a caller updating parameters between searches
NextInfo ==
    \/ NextParams
    \/ Call_get_best_move(NoInt, NoInt, 0)

SpecInfo == Init /\ [][NextInfo]_vars

UpdatingCalls ==
    {"update_engine_parameters", "set_skill_level", "set_elo_rating", "resume_full_strength",
     "reset_engine_parameters"}

\* the call that has just ended was update_engine_parameters with no batch
EmptyBatchEnds == lastOp'.op = "update_engine_parameters" /\ lastOp'.args[1] = <<>>

\* C40: every update_engine_parameters that returns from a batch that is not
\* empty, and so every set_skill_level, set_elo_rating, resume_full_strength
\* and reset_engine_parameters that returns, leaves the diagnostic text empty;
\* a call with an empty or absent batch writes nothing and leaves the
\* diagnostic text, the parameters and the position as they were.
C40_UpdateClearsInfo ==
    [][lastOp'.op \in UpdatingCalls
       => IF EmptyBatchEnds
          THEN /\ lastOp'.err = "none"
               /\ trace' = <<>>
               /\ info' = info
               /\ parameters' = parameters
               /\ epos' = epos
               /\ eopts' = eopts
          ELSE lastOp'.err = "none" => info' = <<>>]_vars

\* C40: update_engine_parameters has returned from an empty batch on a session
\* whose diagnostic text a search had set
C40_Witness ==
    /\ pc = "returned"
    /\ lastOp.op = "update_engine_parameters"
    /\ lastOp.args = << <<>> >>
    /\ lastOp.err = "none"
    /\ info # <<>>
    /\ trace = <<>>

====
